---- MODULE Spec2Model ----
(***************************************************************************)
(* Model of the notifications Manager of AdGuard Home                      *)
(* (internal/notifications/manager.go): the lifecycle (Start, Stop), the   *)
(* runtime configuration replacement (UpdateTelegramConfig), the monitor   *)
(* loop goroutine (loop, runCheck, handleMetric) and the alert state store *)
(* (alertActive, lastSent).                                                *)
(*                                                                         *)
(* Time is counted in minutes.  Percentages are integers.  Every critical  *)
(* section of m.mu is one atomic step; everything a goroutine does between *)
(* two critical sections, or while an HTTP call is in flight, is a         *)
(* separate step, so other goroutines interleave exactly where the code    *)
(* holds no lock.                                                          *)
(*                                                                         *)
(* Spec is the Manager with Start and Stop called one after the other,     *)
(* SpecRace with Start and Stop called concurrently, SpecIdle with         *)
(* delivery switched off (the lifecycle, the timer and the select alone);  *)
(* SpecRaceFair and SpecIdleFair add what the scheduler guarantees.        *)
(* SpecLock follows the goroutines from one lock operation to the next.    *)
(***************************************************************************)
EXTENDS Integers, Sequences, FiniteSets, TLC

VARIABLES
    telegram,     \* m.telegram
    stopCh,       \* m.stopCh: 0 is nil, otherwise the identity of the channel
    closed,       \* the set of stop channels that have been closed
    wg,           \* the counter of m.wg
    lastSent,     \* m.lastSent: a map, its DOMAIN are the keys present
    alertActive,  \* m.alertActive: a map, its DOMAIN are the keys present
    loops,        \* the goroutines running Manager.loop, by channel identity
    stoppers,     \* callers of Stop that are in m.wg.Wait()
    released,     \* those of them the counter reaching zero has woken
    ctxDone,      \* whether the context handed to Start has been cancelled
    now,          \* the clock read by time.Now and time.Since
    deliveredAt,  \* history: per metric, when its last alert was delivered
    mu,           \* m.mu, for the goroutines followed lock by lock
    tasks,        \* those goroutines: where each is and what it is doing
    call,         \* the call of SendTelegramTest or NotifyFilterUpdate followed
    persisted,    \* config.Notifications.Telegram of package home
    puts,         \* the PUT requests handlePutTelegramConfig is serving
    publicIPValue,    \* publicIPValue of package systeminfo
    publicIPFetched,  \* publicIPFetched of package systeminfo
    lookups,      \* the calls of lookupPublicIP in progress
    calc          \* the call of a formatting function followed

vars == <<telegram, stopCh, closed, wg, lastSent, alertActive, loops,
          stoppers, released, ctxDone, now, deliveredAt, mu, tasks,
          call, persisted, puts, publicIPValue, publicIPFetched, lookups,
          calc>>

\* The state of package home.
homeVars == <<persisted, puts>>

\* The state of package systeminfo.
infoVars == <<publicIPValue, publicIPFetched, lookups>>

----------------------------------------------------------------------------
(* Bounds of the model. *)

MaxTime == 3
MaxLoops == 2
MaxCallers == 2
MaxRequests == 2
MaxOver == 1

LoopIds == 1..MaxLoops
Callers == 1..MaxCallers

----------------------------------------------------------------------------
(* Constants of the program. *)

defaultCheckInterval == 1
defaultCooldown == 1
\* resetFactor = 0.9, kept as the fraction resetNum / resetDen
resetNum == 9
resetDen == 10
\* time.Time{}, what a map of time.Time yields for a missing key
ZeroTime == -1

Metrics == <<"cpu", "memory", "disk">>
MetricSet == {"cpu", "memory", "disk"}

\* The empty map.
EmptyMap == [k \in {} |-> TRUE]

\* m[k] = v on a Go map.
MapSet(map, k, v) == [x \in (DOMAIN map) \cup {k} |-> IF x = k THEN v ELSE map[x]]

\* delete(m, k) on a Go map.
MapDelete(map, k) == [x \in (DOMAIN map) \ {k} |-> map[x]]

----------------------------------------------------------------------------
(* Inputs. *)

\* Configurations handed to NewManager and UpdateTelegramConfig: delivery on
\* and off, each credential missing, thresholds positive, zero and negative,
\* interval and cooldown given and left to the defaults.  A string that is
\* looked into (a message, CustomMessage) is the sequence of its runs of
\* equal bytes; BotToken and ChatID are only compared.
BaseConfig ==
    [Enabled |-> TRUE, BotToken |-> "token", ChatID |-> "chat",
     CPUThreshold |-> 50, MemoryThreshold |-> 50, DiskThreshold |-> 50,
     CheckInterval |-> 1, Cooldown |-> 2, CustomMessage |-> << >>]

ConfigInputs ==
    { BaseConfig,
      [BaseConfig EXCEPT !.Enabled = FALSE],
      [BaseConfig EXCEPT !.BotToken = ""],
      [BaseConfig EXCEPT !.ChatID = ""],
      [BaseConfig EXCEPT !.CPUThreshold = 0, !.DiskThreshold = -5,
                         !.CheckInterval = 0, !.Cooldown = -1] }

\* The usage percentages systeminfo.Collect reports: nothing, below the
\* reset level of a threshold of 50, between the two, at the threshold.
Usage(c, m, d) == [CPUUsage |-> c, MemoryUsage |-> m, DiskUsage |-> d]

InfoInputs ==
    { Usage(50, 50, 50), Usage(40, 40, 40), Usage(47, 47, 47),
      Usage(0, 50, 40), Usage(50, 0, 47) }

----------------------------------------------------------------------------
(* Pure functions. *)

\* Mutant of normalizeTelegramConfig: the cooldown is stored as given.
normalizeTelegramConfigKeepsCooldown(cfg) ==
    IF cfg.CheckInterval <= 0
    THEN [cfg EXCEPT !.CheckInterval = defaultCheckInterval]
    ELSE cfg

normalizeTelegramConfig(cfg) ==
    LET c1 == IF cfg.CheckInterval <= 0
              THEN [cfg EXCEPT !.CheckInterval = defaultCheckInterval]
              ELSE cfg
    IN  IF c1.Cooldown <= 0 THEN [c1 EXCEPT !.Cooldown = defaultCooldown] ELSE c1

\* The threshold runCheck passes to handleMetric for a metric.
ThresholdOf(cfg, metric) ==
    CASE metric = "cpu" -> cfg.CPUThreshold
      [] metric = "memory" -> cfg.MemoryThreshold
      [] metric = "disk" -> cfg.DiskThreshold

\* The value runCheck passes to handleMetric for a metric.
ValueOf(info, metric) ==
    CASE metric = "cpu" -> info.CPUUsage
      [] metric = "memory" -> info.MemoryUsage
      [] metric = "disk" -> info.DiskUsage

\* Mutant of CheckSkipped: the chat id is not looked at.
CheckSkippedIgnoresChatID(cfg) == ~cfg.Enabled \/ cfg.BotToken = ""

\* The guard of runCheck: the whole cycle is skipped when it holds.
CheckSkipped(cfg) == ~cfg.Enabled \/ cfg.BotToken = "" \/ cfg.ChatID = ""

\* Mutant of MetricDisabled: the value is not looked at.
MetricDisabledThresholdOnly(value, threshold) == threshold <= 0

\* The first guard of handleMetric.
MetricDisabled(value, threshold) == threshold <= 0 \/ value <= 0

\* Mutant of CooldownElapsed: > in place of >=.
CooldownElapsedStrict(last, cooldown, t) ==
    IF last = ZeroTime THEN TRUE ELSE t - last > cooldown

\* time.Since(last) >= cooldown at time t.  time.Since of the zero time
\* saturates at the largest Duration, which no cooldown exceeds.
CooldownElapsed(last, cooldown, t) ==
    IF last = ZeroTime THEN TRUE ELSE t - last >= cooldown

\* The cooldown handleMetric uses.
CooldownOf(cfg) == IF cfg.Cooldown <= 0 THEN defaultCooldown ELSE cfg.Cooldown

\* value >= threshold, the breach test of handleMetric.
Breached(value, threshold) == value >= threshold

\* Mutant of ShouldSend: the active flag is not looked at.
ShouldSendIgnoresActive(active, last, cooldown, t) ==
    CooldownElapsed(last, cooldown, t)

\* !active && time.Since(last) >= cooldown, the guard of sendAlert.
ShouldSend(active, last, cooldown, t) ==
    ~active /\ CooldownElapsed(last, cooldown, t)

\* Mutant of ShouldReset: the active flag is negated.
ShouldResetWhenInactive(active, value, threshold) ==
    ~active /\ value * resetDen < threshold * resetNum

\* active && value < threshold*resetFactor, the guard of the silent reset.
ShouldReset(active, value, threshold) ==
    active /\ value * resetDen < threshold * resetNum

\* Manager.metricState on the maps: a missing key reads as the zero value.
metricState(active, sent, metric) ==
    << IF metric \in DOMAIN active THEN active[metric] ELSE FALSE,
       IF metric \in DOMAIN sent THEN sent[metric] ELSE ZeroTime >>

\* Mutant of updateMetricState: an alert sets the flag and no time.
updateMetricStateFlagOnly(maps, metric, active, ts) ==
    IF active
    THEN << MapSet(maps[1], metric, TRUE), maps[2] >>
    ELSE << MapDelete(maps[1], metric), maps[2] >>

\* Mutant of updateMetricState: clearing also deletes the last-alert time.
updateMetricStateDropsTime(maps, metric, active, ts) ==
    IF active
    THEN << MapSet(maps[1], metric, TRUE), MapSet(maps[2], metric, ts) >>
    ELSE << MapDelete(maps[1], metric), MapDelete(maps[2], metric) >>

\* Manager.updateMetricState on the pair of maps <<alertActive, lastSent>>.
updateMetricState(maps, metric, active, ts) ==
    IF active
    THEN << MapSet(maps[1], metric, TRUE), MapSet(maps[2], metric, ts) >>
    ELSE << MapDelete(maps[1], metric), maps[2] >>

\* Manager.clearAlert.
clearAlert(maps, metric) == updateMetricState(maps, metric, FALSE, ZeroTime)

\* Mutant of getCheckInterval: the default whatever is stored.
getCheckIntervalDefaultOnly(cfg) == defaultCheckInterval

\* Manager.getCheckInterval.
getCheckInterval(cfg) ==
    IF cfg.CheckInterval <= 0 THEN defaultCheckInterval ELSE cfg.CheckInterval

----------------------------------------------------------------------------
(* Strings and the delivery client, Manager.sendTelegram. *)

telegramMaxMessageLen == 4096

\* A string is the sequence of its runs: [c |-> b, n |-> k] is the byte b
\* (a string of one character) k > 0 times, and neighbouring runs differ in
\* their byte, so that equal strings are equal sequences.

\* s + t.
Concat(s, t) ==
    IF s = << >> THEN t
    ELSE IF t = << >> THEN s
    ELSE IF s[Len(s)].c = t[1].c
    THEN SubSeq(s, 1, Len(s) - 1)
         \o <<[c |-> t[1].c, n |-> s[Len(s)].n + t[1].n]>>
         \o Tail(t)
    ELSE s \o t

\* strings.Repeat(c, n).
Repeat(c, n) == IF n = 0 THEN << >> ELSE <<[c |-> c, n |-> n]>>

\* The string of the bytes listed.
RECURSIVE Str(_)
Str(bytes) ==
    IF bytes = << >> THEN << >>
    ELSE Concat(Repeat(Head(bytes), 1), Str(Tail(bytes)))

\* len(s).
RECURSIVE Length(_)
Length(s) == IF s = << >> THEN 0 ELSE Head(s).n + Length(Tail(s))

\* s[:k], for k <= len(s).
RECURSIVE Prefix(_, _)
Prefix(s, k) ==
    IF k = 0 \/ s = << >> THEN << >>
    ELSE IF Head(s).n <= k
    THEN <<Head(s)>> \o Prefix(Tail(s), k - Head(s).n)
    ELSE <<[Head(s) EXCEPT !.n = k]>>

\* The bytes strings.TrimSpace removes at both ends.
Whitespace == {" ", "\t", "\n", "\r"}

\* strings.TrimSpace.
RECURSIVE TrimLeft(_)
TrimLeft(s) ==
    IF s # << >> /\ Head(s).c \in Whitespace THEN TrimLeft(Tail(s)) ELSE s

RECURSIVE TrimRight(_)
TrimRight(s) ==
    IF s # << >> /\ s[Len(s)].c \in Whitespace
    THEN TrimRight(SubSeq(s, 1, Len(s) - 1))
    ELSE s

TrimSpace(s) == TrimRight(TrimLeft(s))

\* Mutant of Truncate: a message of exactly telegramMaxMessageLen bytes is
\* cut as well, one byte short.
TruncateOneShort(s) ==
    IF Length(s) >= telegramMaxMessageLen
    THEN Prefix(s, telegramMaxMessageLen - 1)
    ELSE s

\* if len(trimmed) > telegramMaxMessageLen { trimmed = trimmed[:...] }
Truncate(s) ==
    IF Length(s) > telegramMaxMessageLen
    THEN Prefix(s, telegramMaxMessageLen)
    ELSE s

\* Bot tokens with which the endpoint is no URL: http.NewRequestWithContext
\* fails on the "%" that no two hexadecimal digits follow.
MalformedTokens == {"bad%token"}

\* Manager.sendTelegram up to m.client.Do: what is posted, if anything, and
\* what is returned when nothing is.
Outgoing(cfg, message) ==
    LET trimmed == TrimSpace(message)
    IN  IF trimmed = << >>
        THEN [posted |-> FALSE, text |-> << >>, err |-> "nil"]
        ELSE IF cfg.BotToken \in MalformedTokens
        THEN [posted |-> FALSE, text |-> << >>, err |-> "create request"]
        ELSE [posted |-> TRUE, text |-> Truncate(trimmed), err |-> "none"]

\* What m.client.Do comes back with: an error of the transport (no
\* connection, the timeout of the client, the cancelled context of the
\* request), or a response with a status and a body.  A body is what its
\* bytes are as JSON: nothing at all, no JSON, null, an array, or an object
\* with or without the fields ok and description, of the right type or not.
NoBody == [bytes |-> 0, json |-> "none", ok |-> "absent", description |-> "absent"]
Object(ok, description) ==
    [bytes |-> 64, json |-> "object", ok |-> ok, description |-> description]
Bodies ==
    { NoBody,
      [NoBody EXCEPT !.bytes = 3, !.json = "invalid"],
      [NoBody EXCEPT !.bytes = 4, !.json = "null"],
      [NoBody EXCEPT !.bytes = 2, !.json = "array"],
      [Object("true", "absent") EXCEPT !.bytes = telegramMaxMessageLen + 1],
      Object("true", "absent"), Object("true", "text"), Object("true", "number"),
      Object("false", "text"), Object("false", "empty"), Object("false", "absent"),
      Object("absent", "absent"), Object("null", "absent"),
      Object("string", "absent") }

StatusOK == 200
Transport == [kind |-> "transport", status |-> 0, body |-> NoBody]
Response(status, body) == [kind |-> "http", status |-> status, body |-> body]
Responses ==
    {Transport} \cup {Response(StatusOK, b) : b \in Bodies}
                \cup {Response(500, NoBody), Response(403, Object("false", "text"))}
NoResponse == [kind |-> "none", status |-> 0, body |-> NoBody]

\* io.ReadAll(io.LimitReader(resp.Body, telegramMaxMessageLen)): a longer
\* body is cut, and what is left of it is no JSON.
ReadBody(body) ==
    IF body.bytes > telegramMaxMessageLen
    THEN [body EXCEPT !.bytes = telegramMaxMessageLen, !.json = "invalid"]
    ELSE body

\* json.Unmarshal(body, &apiResp): the error, and apiResp afterwards.  null
\* leaves the struct as it is, a field of the wrong type is an error and
\* leaves that field as it is.
Unmarshal(body) ==
    CASE body.json \in {"none", "invalid", "array"} ->
            [err |-> TRUE, OK |-> FALSE, Description |-> ""]
      [] body.json = "null" ->
            [err |-> FALSE, OK |-> FALSE, Description |-> ""]
      [] body.json = "object" ->
            [err |-> body.ok = "string" \/ body.description = "number",
             OK |-> body.ok = "true",
             Description |-> IF body.description = "text" THEN "text" ELSE ""]

\* Mutant of Answer: a status of 200 with nothing in the body is taken for
\* a delivery.
AnswerEmptyBodyDelivered(resp) ==
    LET body == ReadBody(resp.body)
        apiResp == IF body.bytes > 0
                   THEN Unmarshal(body)
                   ELSE [err |-> FALSE, OK |-> FALSE, Description |-> ""]
    IN  IF resp.kind = "transport" THEN "send request"
        ELSE IF resp.status # StatusOK THEN "telegram api status"
        ELSE IF body.bytes = 0 THEN "nil"
        ELSE IF apiResp.err THEN "decode telegram response"
        ELSE IF ~apiResp.OK
        THEN IF apiResp.Description # "" THEN "telegram api error: description"
             ELSE "telegram api error: body"
        ELSE "nil"

\* Manager.sendTelegram from m.client.Do on: the error it returns ("nil"
\* for none) for what came back.
Answer(resp) ==
    LET body == ReadBody(resp.body)
        apiResp == IF body.bytes > 0
                   THEN Unmarshal(body)
                   ELSE [err |-> FALSE, OK |-> FALSE, Description |-> ""]
    IN  IF resp.kind = "transport" THEN "send request"
        ELSE IF resp.status # StatusOK THEN "telegram api status"
        ELSE IF body.bytes > 0 /\ apiResp.err THEN "decode telegram response"
        ELSE IF ~apiResp.OK
        THEN IF apiResp.Description # "" THEN "telegram api error: description"
             ELSE IF body.bytes > 0 THEN "telegram api error: body"
             ELSE "telegram api error: unknown telegram error"
        ELSE "nil"

\* strings.Join(lines, sep).
RECURSIVE Join(_, _)
Join(lines, sep) ==
    IF Len(lines) = 0 THEN << >>
    ELSE IF Len(lines) = 1 THEN lines[1]
    ELSE Concat(Concat(lines[1], sep), Join(Tail(lines), sep))

\* fallbackString.
fallbackString(val) ==
    IF TrimSpace(val) = << >> THEN Str(<<"-">>) ELSE TrimSpace(val)

\* The message SendTelegramTest sends for an empty one, "AdGuard Home test
\* notification".
DefaultTestMessage ==
    Str(<<"A", "d", "G", "u", "a", "r", "d", " ", "H", "o", "m", "e", " ",
          "t", "e", "s", "t", " ",
          "n", "o", "t", "i", "f", "i", "c", "a", "t", "i", "o", "n">>)

\* filterUpdateHeader, the words after the pictograph.
filterUpdateHeader(listType) ==
    CASE listType = "allowlist" ->
            Str(<<"A", "l", "l", "o", "w", "l", "i", "s", "t", " ",
                  "U", "p", "d", "a", "t", "e">>)
      [] listType = "blocklist" ->
            Str(<<"B", "l", "o", "c", "k", "l", "i", "s", "t", " ",
                  "U", "p", "d", "a", "t", "e">>)
      [] OTHER ->
            Str(<<"F", "i", "l", "t", "e", "r", " ", "U", "p", "d", "a", "t", "e">>)

\* composeFilterUpdateMessage: the trimmed CustomMessage when there is one,
\* the header and the line of the list name, joined by newlines.  The lines
\* after these (id, type, source, rules, size, status, system overview) are
\* labels with values of the update and of the snapshot; the last of them,
\* the uptime, ends in "m" or "-".
composeFilterUpdateMessage(cfg, update) ==
    LET prefix == TrimSpace(cfg.CustomMessage)
        lines == (IF prefix # << >> THEN <<prefix>> ELSE << >>)
                 \o <<filterUpdateHeader(update.ListType)>>
                 \o <<Concat(Str(<<"L", "i", "s", "t", ":", " ">>),
                             fallbackString(update.Name))>>
                 \o <<Str(<<"U", "p", "t", "i", "m", "e", ":", " ", "-">>)>>
    IN  Join(lines, Str(<<"\n">>))

\* The FilterUpdate values handed to NotifyFilterUpdate.
FilterUpdates ==
    { [ListType |-> "allowlist", Name |-> Str(<<"a", "d", "s">>)],
      [ListType |-> "blocklist", Name |-> Str(<<" ">>)],
      [ListType |-> "", Name |-> << >>] }

----------------------------------------------------------------------------
(* The goroutines of Manager.loop. *)

NoCfg == [Enabled |-> FALSE, BotToken |-> "", ChatID |-> "",
          CPUThreshold |-> 0, MemoryThreshold |-> 0, DiskThreshold |-> 0,
          CheckInterval |-> 0, Cooldown |-> 0, CustomMessage |-> << >>]
NoInfo == [CPUUsage |-> 0, MemoryUsage |-> 0, DiskUsage |-> 0]
NoAttempts == [x \in MetricSet |-> 0]
NoOutcome == [x \in MetricSet |-> "none"]

\* A goroutine that has not been launched.  pc is its position:
\*   "none"    not launched             "arm"     top of the for loop
\*   "select"  blocked in the select    "metric"  entering handleMetric
\*   "decide"  after metricState        "sending" sendAlert in flight
\*   "update"  before updateMetricState "exited"  returned, wg.Done called
\* live is whether the context was not yet cancelled when the sendAlert in
\* flight was called.
\* The last three fields are history of the current check cycle: attempts
\* counts the calls of sendAlert per metric, outcome is how handleMetric
\* ended per metric ("off", "held", "quiet", "reset", "failed", "cancelled",
\* "sent"), skipped is whether runCheck returned at its guard.
NoLoop == [pc |-> "none", cfg |-> NoCfg, info |-> NoInfo, idx |-> 0,
           active |-> FALSE, last |-> ZeroTime, ts |-> ZeroTime,
           live |-> FALSE, deadline |-> 0, attempts |-> NoAttempts,
           outcome |-> NoOutcome, skipped |-> FALSE]

Alive(g) == loops[g].pc \notin {"none", "exited"}

\* m.mu, a sync.RWMutex: w is the goroutine holding the write lock ("" when
\* nobody does), r the set of goroutines holding the read lock.
Unlocked == [w |-> "", r |-> {}]

\* The goroutines followed lock by lock: one in runCheck, one in
\* SendTelegramTest, one in NotifyFilterUpdate, one in UpdateTelegramConfig.
\* at is the function it is in ("idle" outside the Manager), idx the metric
\* of handleMetric, active the first argument of updateMetricState.
Tasks == {"runCheck", "SendTelegramTest", "NotifyFilterUpdate",
          "UpdateTelegramConfig"}
Idle == [at |-> "idle", idx |-> 0, active |-> FALSE]

\* The call of SendTelegramTest or NotifyFilterUpdate that is followed, one
\* at a time.  pc is "idle" before the first call, "posting" while
\* m.client.Do is in flight, "returned" after the call.  cfg is the copy
\* getTelegramConfig returned, input the message handed to SendTelegramTest,
\* msg the message handed to sendTelegram, text what was posted, attempts
\* the calls of sendTelegram, posts the requests posted, resp what came
\* back, err what sendTelegram returned, result what the caller of the
\* Manager got back ("nothing" from NotifyFilterUpdate), logged whether an
\* error was logged.
NoCall == [op |-> "none", pc |-> "idle", cfg |-> NoCfg, input |-> << >>,
           msg |-> << >>, text |-> << >>, attempts |-> 0, posts |-> 0,
           resp |-> NoResponse, err |-> "none", result |-> "none",
           logged |-> FALSE]

\* config.Notifications.Telegram == nil.
Nil == [nil |-> TRUE]

\* The PUT requests served at a time, and one that has not arrived.  pc is
\* the position of its handler:
\*   "none"       not arrived
\*   "rejected"   answered with an error status, handler returned
\*   "validated"  telegramConfigFromJSON returned cfg, before config.Lock()
\*   "stored"     config.Unlock() done, before UpdateTelegramConfig
\*   "done"       answered 200
\* req is the body, status the status answered, cfg what
\* telegramConfigFromJSON returned, changed and runtimeCfg the variables of
\* that name, updates the calls of UpdateTelegramConfig.
Requests == 1..MaxRequests
NoPut == [pc |-> "none", req |-> Nil, status |-> 0, cfg |-> Nil,
          changed |-> FALSE, runtimeCfg |-> NoCfg, updates |-> 0]

\* A call of lookupPublicIP that has not begun.  pc is "idle", "fetching"
\* after the read of a cache that is empty or stale, "storing" with an
\* address fetched, "returned" after the call;
\* val and fresh are the locals of that name, got what the calls of fetchPublicIP returned, in their order, ip
\* the local of that name, stored whether the call wrote the cache, result
\* what the call returned.
NoLookup == [pc |-> "idle", val |-> "", fresh |-> FALSE,
             got |-> << >>, ip |-> "", stored |-> FALSE, result |-> ""]

\* No formatting function has been called.  fn is the function, arg its
\* arguments, out what it returned.
NoCalc == [fn |-> "none", arg |-> << >>, out |-> << >>]

\* Package systeminfo before the first lookup, and no call followed.
Untouched ==
    /\ publicIPValue = ""
    /\ publicIPFetched = ZeroTime
    /\ lookups = [c \in Callers |-> NoLookup]
    /\ calc = NoCalc

\* What NewManager and UpdateTelegramConfig store for the inputs.
StoredConfigs == {normalizeTelegramConfig(c) : c \in ConfigInputs}

\* The Manager NewManager returns for a configuration.
NewManager(cfg) ==
    /\ telegram = normalizeTelegramConfig(cfg)
    /\ stopCh = 0
    /\ closed = {}
    /\ wg = 0
    /\ lastSent = EmptyMap
    /\ alertActive = EmptyMap
    /\ loops = [g \in LoopIds |-> NoLoop]
    /\ stoppers = {}
    /\ released = {}
    /\ ctxDone = FALSE
    /\ now = 0
    /\ deliveredAt = [x \in MetricSet |-> ZeroTime]
    /\ mu = Unlocked
    /\ tasks = [t \in Tasks |-> Idle]
    /\ call = NoCall
    /\ persisted = Nil
    /\ puts = [r \in Requests |-> NoPut]
    /\ Untouched

Init == \E c \in ConfigInputs : NewManager(c)

----------------------------------------------------------------------------
(* Manager.Start, the whole call under m.mu.  A call while m.stopCh is set *)
(* returns without doing anything.                                         *)

Start ==
    /\ stopCh # 0 \/ \E g \in LoopIds : loops[g].pc = "none"
    /\ IF stopCh # 0
       THEN UNCHANGED <<stopCh, wg, loops>>
       ELSE LET g == CHOOSE x \in LoopIds :
                        /\ loops[x].pc = "none"
                        /\ \A y \in LoopIds : loops[y].pc = "none" => x <= y
            IN  /\ stopCh' = g
                /\ wg' = wg + 1
                /\ loops' = [loops EXCEPT ![g] = [NoLoop EXCEPT !.pc = "arm"]]
    /\ UNCHANGED <<telegram, closed, lastSent, alertActive, stoppers, released, ctxDone,
                   now, mu, tasks, call, homeVars, infoVars, calc, deliveredAt>>

(* Manager.Stop up to its arrival in m.wg.Wait(): returns at once when     *)
(* m.stopCh is nil, otherwise closes the channel, clears the field,        *)
(* unlocks and waits; a counter that is already zero lets Wait return.     *)
(* Callers are interchangeable: a new call takes the smallest free name.   *)
StopSignal(c) ==
    /\ c \notin stoppers
    /\ \A d \in Callers \ stoppers : c <= d
    /\ IF stopCh = 0
       THEN UNCHANGED <<closed, stopCh, stoppers, released>>
       ELSE /\ closed' = closed \cup {stopCh}
            /\ stopCh' = 0
            /\ stoppers' = stoppers \cup {c}
            /\ released' = IF wg = 0 THEN released \cup {c} ELSE released
    /\ UNCHANGED <<telegram, wg, lastSent, alertActive, loops, ctxDone, now, mu, tasks, call, homeVars, infoVars, calc,
                   deliveredAt>>

(* m.wg.Wait() of Manager.Stop returns once the counter has reached zero:  *)
(* the wg.Done() that brings it to zero wakes every waiter, and a waiter   *)
(* that has been woken returns whatever the counter has become since.      *)
StopReturn(c) ==
    /\ c \in released
    /\ stoppers' = stoppers \ {c}
    /\ released' = released \ {c}
    /\ UNCHANGED <<telegram, stopCh, closed, wg, lastSent, alertActive, loops,
                   ctxDone, now, mu, tasks, call, homeVars, infoVars, calc, deliveredAt>>

(* Mutant of UpdateTelegramConfig: the active map is replaced whatever the *)
(* new configuration says.                                                 *)
UpdateTelegramConfigWipesAlways(c) ==
    LET cfg == normalizeTelegramConfig(c)
    IN  /\ telegram' = cfg
        /\ alertActive' = EmptyMap
        /\ UNCHANGED <<stopCh, closed, wg, lastSent, loops, stoppers,
                       released, ctxDone, now, mu, tasks, call, homeVars, infoVars, calc, deliveredAt>>

(* Manager.UpdateTelegramConfig. *)
UpdateTelegramConfig(c) ==
    LET cfg == normalizeTelegramConfig(c)
    IN  /\ telegram' = cfg
        /\ alertActive' = IF ~cfg.Enabled THEN EmptyMap ELSE alertActive
        /\ UNCHANGED <<stopCh, closed, wg, lastSent, loops, stoppers, released, ctxDone,
                       now, mu, tasks, call, homeVars, infoVars, calc, deliveredAt>>

(* The context handed to Start is cancelled. *)
CtxCancel ==
    /\ ~ctxDone
    /\ ctxDone' = TRUE
    /\ UNCHANGED <<telegram, stopCh, closed, wg, lastSent, alertActive, loops,
                   stoppers, released, now, mu, tasks, call, homeVars, infoVars, calc, deliveredAt>>

(* The clock advances. *)
Tick ==
    /\ now < MaxTime
    /\ now' = now + 1
    /\ UNCHANGED <<telegram, stopCh, closed, wg, lastSent, alertActive, loops,
                   stoppers, released, ctxDone, mu, tasks, call, homeVars, infoVars, calc, deliveredAt>>

----------------------------------------------------------------------------
(* Manager.loop *)

\* The locals of one check cycle, dropped when runCheck returns.
EndCycle(l) ==
    [l EXCEPT !.pc = "arm", !.cfg = NoCfg, !.info = NoInfo, !.idx = 0,
              !.active = FALSE, !.last = ZeroTime, !.ts = ZeroTime,
              !.live = FALSE, !.attempts = NoAttempts, !.outcome = NoOutcome]

\* handleMetric returns: runCheck calls it for the next metric or returns.
NextMetric(l, how) ==
    IF l.idx = Len(Metrics)
    THEN EndCycle(l)
    ELSE [l EXCEPT !.pc = "metric", !.idx = @ + 1,
                   !.active = FALSE, !.last = ZeroTime, !.ts = ZeroTime,
                   !.live = FALSE, !.outcome[Metrics[l.idx]] = how]

Rest(g, l) == [loops EXCEPT ![g] = l]

(* defer m.wg.Done(): the counter goes down, and at zero every caller in   *)
(* m.wg.Wait() is woken.                                                   *)
Done ==
    /\ wg' = wg - 1
    /\ released' = IF wg = 1 THEN stoppers ELSE released

(* Top of the for loop: read the interval and arm the timer. *)
LoopArm(g) ==
    /\ loops[g].pc = "arm"
    /\ loops' = Rest(g, [loops[g] EXCEPT
                     !.pc = "select",
                     !.deadline = now + getCheckInterval(telegram),
                     !.skipped = FALSE])
    /\ UNCHANGED <<telegram, stopCh, closed, wg, lastSent, alertActive,
                   stoppers, released, ctxDone, now, mu, tasks, call, homeVars, infoVars, calc, deliveredAt>>

(* Mutant of LoopStop: the stop channel is looked at only when the timer   *)
(* has expired.                                                            *)
LoopStopAfterTimer(g) ==
    /\ loops[g].pc = "select"
    /\ g \in closed
    /\ now >= loops[g].deadline
    /\ loops' = Rest(g, [loops[g] EXCEPT !.pc = "exited", !.deadline = 0])
    /\ Done
    /\ UNCHANGED <<telegram, stopCh, closed, lastSent, alertActive, stoppers,
                   ctxDone, now, mu, tasks, call, homeVars, infoVars, calc, deliveredAt>>

(* case <-stop *)
LoopStop(g) ==
    /\ loops[g].pc = "select"
    /\ g \in closed
    /\ loops' = Rest(g, [loops[g] EXCEPT !.pc = "exited", !.deadline = 0])
    /\ Done
    /\ UNCHANGED <<telegram, stopCh, closed, lastSent, alertActive, stoppers,
                   ctxDone, now, mu, tasks, call, homeVars, infoVars, calc, deliveredAt>>

(* case <-ctx.Done() *)
LoopCtxDone(g) ==
    /\ loops[g].pc = "select"
    /\ ctxDone
    /\ loops' = Rest(g, [loops[g] EXCEPT !.pc = "exited", !.deadline = 0])
    /\ Done
    /\ UNCHANGED <<telegram, stopCh, closed, lastSent, alertActive, stoppers,
                   ctxDone, now, mu, tasks, call, homeVars, infoVars, calc, deliveredAt>>

(* case <-timer.C, and Manager.runCheck up to the first handleMetric: the *)
(* configuration is copied under the read lock, the cycle is skipped when  *)
(* delivery is off or a credential is empty, otherwise systeminfo.Collect  *)
(* is sampled.                                                             *)
RunCheck(g, info) ==
    /\ loops[g].pc = "select"
    /\ now >= loops[g].deadline
    /\ LET cfg == telegram
       IN  IF CheckSkipped(cfg)
           THEN loops' = Rest(g, EndCycle([loops[g] EXCEPT !.deadline = 0,
                                                           !.skipped = TRUE]))
           ELSE loops' = Rest(g, [loops[g] EXCEPT
                              !.pc = "metric", !.cfg = cfg, !.info = info,
                              !.idx = 1, !.deadline = 0])
    /\ UNCHANGED <<telegram, stopCh, closed, wg, lastSent, alertActive,
                   stoppers, released, ctxDone, now, mu, tasks, call, homeVars, infoVars, calc, deliveredAt>>

(* Manager.handleMetric up to its first critical section: clearAlert when  *)
(* the threshold or the value is not positive, otherwise metricState.      *)
HandleMetric(g) ==
    LET l == loops[g]
        metric == Metrics[l.idx]
        value == ValueOf(l.info, metric)
        threshold == ThresholdOf(l.cfg, metric)
    IN  /\ l.pc = "metric"
        /\ IF MetricDisabled(value, threshold)
           THEN /\ alertActive' = clearAlert(<<alertActive, lastSent>>, metric)[1]
                /\ lastSent' = clearAlert(<<alertActive, lastSent>>, metric)[2]
                /\ loops' = Rest(g, NextMetric(l, "off"))
           ELSE LET st == metricState(alertActive, lastSent, metric)
                IN  /\ loops' = Rest(g, [l EXCEPT !.pc = "decide",
                                                  !.active = st[1],
                                                  !.last = st[2]])
                    /\ UNCHANGED <<alertActive, lastSent>>
        /\ UNCHANGED <<telegram, stopCh, closed, wg, stoppers, released, ctxDone, now, mu, tasks, call, homeVars, infoVars, calc,
                       deliveredAt>>

(* Manager.handleMetric after metricState: start sendAlert, clear the      *)
(* alert silently, or return.                                              *)
Decide(g) ==
    LET l == loops[g]
        metric == Metrics[l.idx]
        value == ValueOf(l.info, metric)
        threshold == ThresholdOf(l.cfg, metric)
        cooldown == CooldownOf(l.cfg)
    IN  /\ l.pc = "decide"
        /\ IF Breached(value, threshold)
           THEN /\ IF ShouldSend(l.active, l.last, cooldown, now)
                   THEN loops' = Rest(g, [l EXCEPT
                                      !.pc = "sending",
                                      !.live = ~ctxDone,
                                      !.attempts[metric] = @ + 1])
                   ELSE loops' = Rest(g, NextMetric(l, "held"))
                /\ UNCHANGED <<alertActive, lastSent>>
           ELSE IF ShouldReset(l.active, value, threshold)
                THEN /\ alertActive' = clearAlert(<<alertActive, lastSent>>, metric)[1]
                     /\ lastSent' = clearAlert(<<alertActive, lastSent>>, metric)[2]
                     /\ loops' = Rest(g, NextMetric(l, "reset"))
                ELSE /\ loops' = Rest(g, NextMetric(l, "quiet"))
                     /\ UNCHANGED <<alertActive, lastSent>>
        /\ UNCHANGED <<telegram, stopCh, closed, wg, stoppers, released, ctxDone, now, mu, tasks, call, homeVars, infoVars, calc,
                       deliveredAt>>

(* Mutant of SendReturn: an error of sendAlert ends the check cycle.        *)
SendReturnEndsCycle(g, ok) ==
    LET l == loops[g]
        metric == Metrics[l.idx]
    IN  /\ l.pc = "sending"
        /\ ok => l.live
        /\ IF ok
           THEN /\ loops' = Rest(g, [l EXCEPT !.pc = "update", !.ts = now,
                                              !.live = FALSE])
                /\ deliveredAt' = [deliveredAt EXCEPT ![metric] = now]
           ELSE /\ loops' = Rest(g, EndCycle(l))
                /\ UNCHANGED deliveredAt
        /\ UNCHANGED <<telegram, stopCh, closed, wg, lastSent, alertActive,
                       stoppers, released, ctxDone, now, mu, tasks, call,
                       homeVars, infoVars, calc>>

(* Mutant of SendReturn: the error of sendAlert is logged but the state is  *)
(* updated all the same.                                                   *)
SendReturnStoresOnError(g, ok) ==
    LET l == loops[g]
        metric == Metrics[l.idx]
        maps == updateMetricState(<<alertActive, lastSent>>, metric, TRUE, now)
    IN  /\ l.pc = "sending"
        /\ ok => l.live
        /\ IF ok
           THEN /\ loops' = Rest(g, [l EXCEPT !.pc = "update", !.ts = now,
                                              !.live = FALSE])
                /\ deliveredAt' = [deliveredAt EXCEPT ![metric] = now]
                /\ UNCHANGED <<alertActive, lastSent>>
           ELSE /\ loops' = Rest(g, NextMetric(l, "failed"))
                /\ alertActive' = maps[1]
                /\ lastSent' = maps[2]
                /\ UNCHANGED deliveredAt
        /\ UNCHANGED <<telegram, stopCh, closed, wg, stoppers, released, ctxDone, now, mu, tasks, call, homeVars, infoVars, calc>>

(* Mutant of SendReturn: the time of a failed attempt is stored as the     *)
(* last-alert time, so that the cooldown runs before the next attempt.     *)
SendReturnBacksOff(g, ok) ==
    LET l == loops[g]
        metric == Metrics[l.idx]
    IN  /\ l.pc = "sending"
        /\ ok => l.live
        /\ IF ok
           THEN /\ loops' = Rest(g, [l EXCEPT !.pc = "update", !.ts = now,
                                              !.live = FALSE])
                /\ deliveredAt' = [deliveredAt EXCEPT ![metric] = now]
                /\ UNCHANGED lastSent
           ELSE /\ loops' = Rest(g, NextMetric(l, "failed"))
                /\ lastSent' = MapSet(lastSent, metric, now)
                /\ UNCHANGED deliveredAt
        /\ UNCHANGED <<telegram, stopCh, closed, wg, alertActive,
                       stoppers, released, ctxDone, now, mu, tasks, call, homeVars, infoVars, calc>>

(* sendAlert returns.  An error is logged and handleMetric returns; on     *)
(* success time.Now() is read for updateMetricState.  A request made with  *)
(* a context that was already cancelled never succeeds.                    *)
SendReturn(g, ok) ==
    LET l == loops[g]
        metric == Metrics[l.idx]
    IN  /\ l.pc = "sending"
        /\ ok => l.live
        /\ IF ok
           THEN /\ loops' = Rest(g, [l EXCEPT !.pc = "update", !.ts = now,
                                              !.live = FALSE])
                /\ deliveredAt' = [deliveredAt EXCEPT ![metric] = now]
           ELSE /\ loops' = Rest(g, NextMetric(l, "failed"))
                /\ UNCHANGED deliveredAt
        /\ UNCHANGED <<telegram, stopCh, closed, wg, lastSent, alertActive,
                       stoppers, released, ctxDone, now, mu, tasks, call, homeVars, infoVars, calc>>

(* Mutant of SendCancelled: the closed stop channel aborts the call too.   *)
SendCancelledOnStop(g) ==
    LET l == loops[g]
    IN  /\ l.pc = "sending"
        /\ ctxDone \/ g \in closed
        /\ loops' = Rest(g, NextMetric(l, "cancelled"))
        /\ UNCHANGED <<telegram, stopCh, closed, wg, lastSent, alertActive,
                       stoppers, released, ctxDone, now, mu, tasks, call, homeVars, infoVars, calc, deliveredAt>>

(* sendAlert returns because the context of the loop is cancelled: the     *)
(* request of sendTelegram is made with http.NewRequestWithContext(ctx),   *)
(* so m.client.Do fails with the error of the context, before or after the *)
(* request went out.                                                       *)
SendCancelled(g) ==
    LET l == loops[g]
    IN  /\ l.pc = "sending"
        /\ ctxDone
        /\ loops' = Rest(g, NextMetric(l, "cancelled"))
        /\ UNCHANGED <<telegram, stopCh, closed, wg, lastSent, alertActive,
                       stoppers, released, ctxDone, now, mu, tasks, call, homeVars, infoVars, calc, deliveredAt>>

(* m.updateMetricState(metric, true, now) after a delivery. *)
UpdateState(g) ==
    LET l == loops[g]
        metric == Metrics[l.idx]
        maps == updateMetricState(<<alertActive, lastSent>>, metric, TRUE, l.ts)
    IN  /\ l.pc = "update"
        /\ alertActive' = maps[1]
        /\ lastSent' = maps[2]
        /\ loops' = Rest(g, NextMetric(l, "sent"))
        /\ UNCHANGED <<telegram, stopCh, closed, wg, stoppers, released, ctxDone, now, mu, tasks, call, homeVars, infoVars, calc,
                       deliveredAt>>

----------------------------------------------------------------------------

(* The Manager driven by one owner: Start and Stop are called one after   *)
(* the other, a Start never while a Stop is still waiting for the loop.    *)
(* UpdateTelegramConfig, the cancellation of the context and the clock run *)
(* concurrently with the monitor loop.                                     *)
Next ==
    \/ stoppers = {} /\ Start
    \/ \E c \in Callers : StopSignal(c)
    \/ \E c \in Callers : StopReturn(c)
    \/ \E c \in ConfigInputs : UpdateTelegramConfig(c)
    \/ CtxCancel
    \/ Tick
    \/ \E g \in LoopIds : LoopArm(g)
    \/ \E g \in LoopIds : LoopStop(g)
    \/ \E g \in LoopIds : LoopCtxDone(g)
    \/ \E g \in LoopIds, info \in InfoInputs : RunCheck(g, info)
    \/ \E g \in LoopIds : HandleMetric(g)
    \/ \E g \in LoopIds : Decide(g)
    \/ \E g \in LoopIds, ok \in BOOLEAN : SendReturn(g, ok)
    \/ \E g \in LoopIds : SendCancelled(g)
    \/ \E g \in LoopIds : UpdateState(g)

Spec == Init /\ [][Next]_vars

(* The Manager with Start and Stop called from concurrent goroutines: a    *)
(* Start may run while a Stop waits for the loop to exit.                  *)
RaceConfigs == {BaseConfig, [BaseConfig EXCEPT !.Enabled = FALSE]}
RaceInfos == {Usage(50, 0, 0), Usage(40, 0, 0)}

InitRace == \E c \in RaceConfigs : NewManager(c)

NextRace ==
    \/ Start
    \/ \E c \in Callers : StopSignal(c)
    \/ \E c \in Callers : StopReturn(c)
    \/ \E c \in RaceConfigs : UpdateTelegramConfig(c)
    \/ CtxCancel
    \/ Tick
    \/ \E g \in LoopIds : LoopArm(g)
    \/ \E g \in LoopIds : LoopStop(g)
    \/ \E g \in LoopIds : LoopCtxDone(g)
    \/ \E g \in LoopIds, info \in RaceInfos : RunCheck(g, info)
    \/ \E g \in LoopIds : HandleMetric(g)
    \/ \E g \in LoopIds : Decide(g)
    \/ \E g \in LoopIds, ok \in BOOLEAN : SendReturn(g, ok)
    \/ \E g \in LoopIds : SendCancelled(g)
    \/ \E g \in LoopIds : UpdateState(g)

SpecRace == InitRace /\ [][NextRace]_vars

(* What the Go scheduler and the runtime guarantee to the goroutines of    *)
(* SpecRace.  A runnable goroutine runs: every step of the loop outside    *)
(* its select, and the return of a woken m.wg.Wait().  The select takes a  *)
(* ready case at random, so a case that is ready again and again is taken  *)
(* in the end.  A delivery call ends (the client has a 10 s timeout).  The *)
(* clock advances.  Nothing obliges anybody to call Start, Stop or         *)
(* UpdateTelegramConfig or to cancel the context.                          *)
LoopFairness(g) ==
    /\ WF_vars(LoopArm(g))
    /\ SF_vars(LoopStop(g))
    /\ SF_vars(LoopCtxDone(g))
    /\ SF_vars(\E info \in RaceInfos : RunCheck(g, info))
    /\ WF_vars(HandleMetric(g))
    /\ WF_vars(Decide(g))
    /\ WF_vars(\E ok \in BOOLEAN : SendReturn(g, ok))
    /\ WF_vars(UpdateState(g))

Fairness ==
    /\ \A g \in LoopIds : LoopFairness(g)
    /\ \A c \in Callers : WF_vars(StopReturn(c))
    /\ WF_vars(Tick)

SpecRaceFair == SpecRace /\ Fairness

----------------------------------------------------------------------------
(* The Manager of SpecRace under one configuration that nobody changes,    *)
(* with usages that move around the thresholds of 50 and never come below  *)
(* 50 x 0.9 = 45: the cpu and the memory usage cross the threshold in      *)
(* turn, the disk usage stays under it.                                    *)
BandInfos == {Usage(50, 45, 47), Usage(47, 50, 45)}

InitBand == NewManager(BaseConfig)

NextBand ==
    \/ Start
    \/ \E c \in Callers : StopSignal(c)
    \/ \E c \in Callers : StopReturn(c)
    \/ CtxCancel
    \/ Tick
    \/ \E g \in LoopIds : LoopArm(g)
    \/ \E g \in LoopIds : LoopStop(g)
    \/ \E g \in LoopIds : LoopCtxDone(g)
    \/ \E g \in LoopIds, info \in BandInfos : RunCheck(g, info)
    \/ \E g \in LoopIds : HandleMetric(g)
    \/ \E g \in LoopIds : Decide(g)
    \/ \E g \in LoopIds, ok \in BOOLEAN : SendReturn(g, ok)
    \/ \E g \in LoopIds : SendCancelled(g)
    \/ \E g \in LoopIds : UpdateState(g)

SpecBand == InitBand /\ [][NextBand]_vars

(* The Manager with delivery switched off: every check cycle returns at    *)
(* the guard of runCheck, so what is left is the lifecycle, the timer and  *)
(* the select of the loop.  The configurations differ in the interval;     *)
(* Start and Stop are called from concurrent goroutines.                   *)
IdleConfig == [BaseConfig EXCEPT !.Enabled = FALSE]
IdleConfigs == {IdleConfig,
                [IdleConfig EXCEPT !.CheckInterval = 2],
                [IdleConfig EXCEPT !.CheckInterval = 0, !.Cooldown = -1]}

InitIdle == \E c \in IdleConfigs : NewManager(c)

NextIdle ==
    \/ Start
    \/ \E c \in Callers : StopSignal(c)
    \/ \E c \in Callers : StopReturn(c)
    \/ \E c \in IdleConfigs : UpdateTelegramConfig(c)
    \/ CtxCancel
    \/ Tick
    \/ \E g \in LoopIds : LoopArm(g)
    \/ \E g \in LoopIds : LoopStop(g)
    \/ \E g \in LoopIds : LoopCtxDone(g)
    \/ \E g \in LoopIds, info \in RaceInfos : RunCheck(g, info)

SpecIdle == InitIdle /\ [][NextIdle]_vars

SpecIdleFair == SpecIdle /\ Fairness

----------------------------------------------------------------------------
(* The use of m.mu.  The goroutines of Tasks are followed from one Lock,   *)
(* RLock, Unlock and RUnlock to the next, so that a critical section has a *)
(* beginning and an end and a lock can be seen held.  Values and           *)
(* thresholds are left open: handleMetric may take any of its branches.    *)
(* The lifecycle is at rest.                                               *)

CanLock == mu.w = "" /\ mu.r = {}
CanRLock == mu.w = ""
HoldsLock(t) == mu.w = t \/ t \in mu.r

lifeVars == <<stopCh, closed, wg, loops, stoppers, released, ctxDone, now,
              deliveredAt>>

At(t, where) == [tasks EXCEPT ![t].at = where]

\* handleMetric returns: runCheck calls it for the next metric or returns.
AfterMetric(t) ==
    IF tasks[t].idx = Len(Metrics)
    THEN [tasks EXCEPT ![t] = Idle]
    ELSE [tasks EXCEPT ![t] = [at |-> "handleMetric", idx |-> @.idx + 1,
                               active |-> FALSE]]

(* m.mu.RLock() of getTelegramConfig, called first thing by runCheck,      *)
(* SendTelegramTest and NotifyFilterUpdate.                                *)
GetTelegramConfigLock(t) ==
    /\ t \in {"runCheck", "SendTelegramTest", "NotifyFilterUpdate"}
    /\ tasks[t].at = "idle"
    /\ CanRLock
    /\ mu' = [mu EXCEPT !.r = @ \cup {t}]
    /\ tasks' = At(t, "getTelegramConfig")
    /\ UNCHANGED <<telegram, lastSent, alertActive, lifeVars, call, homeVars, infoVars, calc>>

(* Mutant of GetTelegramConfigUnlock: the read lock is kept until the      *)
(* caller is done.                                                         *)
GetTelegramConfigKeepsLock(t) ==
    LET cfg == telegram
    IN  /\ tasks[t].at = "getTelegramConfig"
        /\ tasks' =
             IF t = "runCheck"
             THEN IF CheckSkipped(cfg)
                  THEN [tasks EXCEPT ![t] = Idle]
                  ELSE [tasks EXCEPT ![t] = [at |-> "handleMetric", idx |-> 1,
                                             active |-> FALSE]]
             ELSE IF t = "SendTelegramTest"
             THEN IF cfg.BotToken = "" \/ cfg.ChatID = ""
                  THEN [tasks EXCEPT ![t] = Idle]
                  ELSE At(t, "sendTelegram")
             ELSE IF CheckSkipped(cfg)
                  THEN [tasks EXCEPT ![t] = Idle]
                  ELSE At(t, "sendTelegram")
        /\ mu' = IF tasks'[t].at = "idle"
                 THEN [mu EXCEPT !.r = @ \ {t}]
                 ELSE mu
        /\ UNCHANGED <<telegram, lastSent, alertActive, lifeVars, call, homeVars, infoVars, calc>>

(* The deferred m.mu.RUnlock() of getTelegramConfig and what the caller    *)
(* does with the copy: runCheck returns when delivery is off or a          *)
(* credential is empty and otherwise enters the first handleMetric;        *)
(* SendTelegramTest returns an error when a credential is empty and        *)
(* NotifyFilterUpdate returns when delivery is off or a credential is      *)
(* empty, otherwise they call sendTelegram.                                *)
GetTelegramConfigUnlock(t) ==
    LET cfg == telegram
    IN  /\ tasks[t].at = "getTelegramConfig"
        /\ mu' = [mu EXCEPT !.r = @ \ {t}]
        /\ tasks' =
             IF t = "runCheck"
             THEN IF CheckSkipped(cfg)
                  THEN [tasks EXCEPT ![t] = Idle]
                  ELSE [tasks EXCEPT ![t] = [at |-> "handleMetric", idx |-> 1,
                                             active |-> FALSE]]
             ELSE IF t = "SendTelegramTest"
             THEN IF cfg.BotToken = "" \/ cfg.ChatID = ""
                  THEN [tasks EXCEPT ![t] = Idle]
                  ELSE At(t, "sendTelegram")
             ELSE IF CheckSkipped(cfg)
                  THEN [tasks EXCEPT ![t] = Idle]
                  ELSE At(t, "sendTelegram")
        /\ UNCHANGED <<telegram, lastSent, alertActive, lifeVars, call, homeVars, infoVars, calc>>

(* m.mu.RLock() of metricState, for a threshold and a value above zero. *)
MetricStateLock(t) ==
    /\ tasks[t].at = "handleMetric"
    /\ CanRLock
    /\ mu' = [mu EXCEPT !.r = @ \cup {t}]
    /\ tasks' = At(t, "metricState")
    /\ UNCHANGED <<telegram, lastSent, alertActive, lifeVars, call, homeVars, infoVars, calc>>

(* The deferred m.mu.RUnlock() of metricState and the branch handleMetric  *)
(* takes: it calls sendAlert, it calls clearAlert, or it returns.          *)
MetricStateUnlock(t, branch) ==
    /\ tasks[t].at = "metricState"
    /\ mu' = [mu EXCEPT !.r = @ \ {t}]
    /\ tasks' = IF branch = "return" THEN AfterMetric(t) ELSE At(t, branch)
    /\ UNCHANGED <<telegram, lastSent, alertActive, lifeVars, call, homeVars, infoVars, calc>>

(* sendTelegram returns, the HTTP call over.  handleMetric goes on to      *)
(* updateMetricState(metric, true, now) after a delivery and returns after *)
(* an error; SendTelegramTest and NotifyFilterUpdate return.               *)
SendTelegramReturn(t, ok) ==
    /\ tasks[t].at = "sendTelegram"
    /\ tasks' = IF t = "runCheck"
                THEN IF ok
                     THEN [tasks EXCEPT ![t].at = "delivered",
                                        ![t].active = TRUE]
                     ELSE AfterMetric(t)
                ELSE [tasks EXCEPT ![t] = Idle]
    /\ UNCHANGED <<telegram, lastSent, alertActive, lifeVars, call, homeVars, infoVars, calc, mu>>

(* m.mu.Lock() of updateMetricState: after a delivery, or from clearAlert  *)
(* at the top of handleMetric or after metricState.                        *)
UpdateMetricStateLock(t) ==
    /\ tasks[t].at \in {"delivered", "handleMetric", "clearAlert"}
    /\ CanLock
    /\ mu' = [mu EXCEPT !.w = t]
    /\ tasks' = At(t, "updateMetricState")
    /\ UNCHANGED <<telegram, lastSent, alertActive, lifeVars, call, homeVars, infoVars, calc>>

(* The body of updateMetricState and its deferred m.mu.Unlock(). *)
UpdateMetricStateUnlock(t) ==
    LET metric == Metrics[tasks[t].idx]
        maps == updateMetricState(<<alertActive, lastSent>>, metric,
                                  tasks[t].active, now)
    IN  /\ tasks[t].at = "updateMetricState"
        /\ alertActive' = maps[1]
        /\ lastSent' = maps[2]
        /\ mu' = [mu EXCEPT !.w = ""]
        /\ tasks' = AfterMetric(t)
        /\ UNCHANGED <<telegram, lifeVars, call, homeVars, infoVars, calc>>

(* m.mu.Lock() of UpdateTelegramConfig. *)
UpdateTelegramConfigLock(t) ==
    /\ t = "UpdateTelegramConfig"
    /\ tasks[t].at = "idle"
    /\ CanLock
    /\ mu' = [mu EXCEPT !.w = t]
    /\ tasks' = At(t, "UpdateTelegramConfig")
    /\ UNCHANGED <<telegram, lastSent, alertActive, lifeVars, call, homeVars, infoVars, calc>>

(* The assignments of UpdateTelegramConfig and its m.mu.Unlock(). *)
UpdateTelegramConfigUnlock(t, c) ==
    LET cfg == normalizeTelegramConfig(c)
    IN  /\ tasks[t].at = "UpdateTelegramConfig"
        /\ telegram' = cfg
        /\ alertActive' = IF ~cfg.Enabled THEN EmptyMap ELSE alertActive
        /\ mu' = [mu EXCEPT !.w = ""]
        /\ tasks' = [tasks EXCEPT ![t] = Idle]
        /\ UNCHANGED <<lastSent, lifeVars, call, homeVars, infoVars, calc>>

LockConfigs == {BaseConfig,
                [BaseConfig EXCEPT !.Enabled = FALSE],
                [BaseConfig EXCEPT !.ChatID = ""]}

InitLock == \E c \in LockConfigs : NewManager(c)

NextLock ==
    \/ \E t \in Tasks : GetTelegramConfigLock(t)
    \/ \E t \in Tasks : GetTelegramConfigUnlock(t)
    \/ \E t \in Tasks : MetricStateLock(t)
    \/ \E t \in Tasks, branch \in {"sendTelegram", "clearAlert", "return"} :
            MetricStateUnlock(t, branch)
    \/ \E t \in Tasks, ok \in BOOLEAN : SendTelegramReturn(t, ok)
    \/ \E t \in Tasks : UpdateMetricStateLock(t)
    \/ \E t \in Tasks : UpdateMetricStateUnlock(t)
    \/ \E t \in Tasks : UpdateTelegramConfigLock(t)
    \/ \E t \in Tasks, c \in LockConfigs : UpdateTelegramConfigUnlock(t, c)

SpecLock == InitLock /\ [][NextLock]_vars

----------------------------------------------------------------------------
(* The Manager left running: Start is called, nobody calls Stop or cancels *)
(* the context, and every configuration stored has delivery enabled, both  *)
(* credentials and a cpu threshold of 50.  systeminfo.Collect reports a    *)
(* cpu usage at the threshold in every check that begins while cpu has no  *)
(* entry in the active map, and any usage while it has one.                *)

\* time.Now() moves on for ever.  Only differences of times are looked at
\* (time.Since(last) >= cooldown, the expiry of the timer), and none of them
\* is compared with more than MaxTime minutes: once the clock reads MaxTime
\* a further minute moves every time kept one minute back instead, a time
\* that is already MaxTime minutes old staying that old.
Back(t) == IF t <= 0 THEN t ELSE t - 1

TickOn ==
    /\ IF now < MaxTime
       THEN /\ now' = now + 1
            /\ UNCHANGED <<lastSent, loops, deliveredAt>>
       ELSE /\ now' = now
            /\ lastSent' = [m \in DOMAIN lastSent |-> Back(lastSent[m])]
            /\ deliveredAt' = [m \in MetricSet |-> Back(deliveredAt[m])]
            /\ loops' = [g \in LoopIds |->
                           [loops[g] EXCEPT !.deadline = Back(@),
                                            !.last = Back(@),
                                            !.ts = Back(@)]]
    /\ UNCHANGED <<telegram, stopCh, closed, wg, alertActive, stoppers,
                   released, ctxDone, mu, tasks, call, homeVars, infoVars, calc>>

RetryConfigs == {BaseConfig,
                 [BaseConfig EXCEPT !.Cooldown = 1],
                 [BaseConfig EXCEPT !.MemoryThreshold = 0,
                                    !.CheckInterval = 0, !.Cooldown = -1]}
RetryInfos == {Usage(50, 50, 50), Usage(50, 0, 40), Usage(40, 50, 0),
               Usage(47, 40, 50)}

InitRetry == \E c \in RetryConfigs : NewManager(c)

\* A check begins: the usage sampled is at the threshold while cpu is not
\* Active.
RetryRunCheck(g, info) ==
    /\ "cpu" \notin DOMAIN alertActive
       => Breached(info.CPUUsage, telegram.CPUThreshold)
    /\ RunCheck(g, info)

NextRetry ==
    \/ Start
    \/ \E c \in RetryConfigs : UpdateTelegramConfig(c)
    \/ TickOn
    \/ \E g \in LoopIds : LoopArm(g)
    \/ \E g \in LoopIds, info \in RetryInfos : RetryRunCheck(g, info)
    \/ \E g \in LoopIds : HandleMetric(g)
    \/ \E g \in LoopIds : Decide(g)
    \/ \E g \in LoopIds, ok \in BOOLEAN : SendReturn(g, ok)
    \/ \E g \in LoopIds : UpdateState(g)

SpecRetry == InitRetry /\ [][NextRetry]_vars

(* What keeps the loop going: a runnable goroutine runs, the timer fires   *)
(* when its time has come, a delivery call ends, the clock moves on; and   *)
(* the deliveries for cpu succeed in the end: of attempts made again and   *)
(* again, one is delivered.                                                *)
RetryFairness ==
    /\ \A g \in LoopIds :
        /\ WF_vars(LoopArm(g))
        /\ WF_vars(\E info \in RetryInfos : RetryRunCheck(g, info))
        /\ WF_vars(HandleMetric(g))
        /\ WF_vars(Decide(g))
        /\ WF_vars(\E ok \in BOOLEAN : SendReturn(g, ok))
        /\ SF_vars(/\ loops[g].pc = "sending"
                    /\ Metrics[loops[g].idx] = "cpu"
                    /\ SendReturn(g, TRUE))
        /\ WF_vars(UpdateState(g))
    /\ WF_vars(TickOn)

SpecRetryFair == SpecRetry /\ RetryFairness

----------------------------------------------------------------------------
(* Manager.SendTelegramTest and Manager.NotifyFilterUpdate, one call at a  *)
(* time, while UpdateTelegramConfig replaces the configuration.  A call is *)
(* two steps: everything up to m.client.Do (the copy of the configuration  *)
(* under the read lock, the guard, the message, the request), and          *)
(* everything after it.  The monitor loop is at rest; the Manager is taken *)
(* in a state the loop has left it in.                                     *)

sendVars == <<stopCh, closed, wg, loops, stoppers, released, ctxDone, now,
              deliveredAt, mu, tasks, homeVars, infoVars, calc>>

\* What is common to the two calls: sendTelegram is called with msg and
\* either returns at once or has its request posted.
Posting(op, cfg, input, msg) ==
    LET out == Outgoing(cfg, msg)
    IN  [NoCall EXCEPT !.op = op, !.cfg = cfg, !.input = input, !.msg = msg,
                       !.attempts = 1,
                       !.pc = IF out.posted THEN "posting" ELSE "returned",
                       !.posts = IF out.posted THEN 1 ELSE 0,
                       !.text = out.text,
                       !.err = out.err]

\* Mutant of SendTelegramTest: the default message only for a message of no
\* bytes at all.
SendTelegramTestDefaultForNoBytes(message) ==
    LET cfg == telegram
        msg == IF message = << >> THEN DefaultTestMessage ELSE TrimSpace(message)
        sent == Posting("SendTelegramTest", cfg, message, msg)
    IN  /\ call.pc \in {"idle", "returned"}
        /\ call' = IF cfg.BotToken = "" \/ cfg.ChatID = ""
                   THEN [NoCall EXCEPT !.op = "SendTelegramTest",
                                       !.pc = "returned", !.cfg = cfg,
                                       !.input = message,
                                       !.result = "telegram configuration incomplete"]
                   ELSE [sent EXCEPT !.result = IF sent.pc = "returned"
                                                THEN sent.err ELSE "none"]
        /\ UNCHANGED <<telegram, lastSent, alertActive, sendVars>>

\* Mutant of SendTelegramTest: the guard of runCheck and NotifyFilterUpdate,
\* which wants delivery enabled as well.
SendTelegramTestWhenEnabled(message) ==
    LET cfg == telegram
        trimmed == TrimSpace(message)
        msg == IF trimmed = << >> THEN DefaultTestMessage ELSE trimmed
        sent == Posting("SendTelegramTest", cfg, message, msg)
    IN  /\ call.pc \in {"idle", "returned"}
        /\ call' = IF CheckSkipped(cfg)
                   THEN [NoCall EXCEPT !.op = "SendTelegramTest",
                                       !.pc = "returned", !.cfg = cfg,
                                       !.input = message,
                                       !.result = "telegram configuration incomplete"]
                   ELSE [sent EXCEPT !.result = IF sent.pc = "returned"
                                                THEN sent.err ELSE "none"]
        /\ UNCHANGED <<telegram, lastSent, alertActive, sendVars>>

(* Manager.SendTelegramTest up to m.client.Do. *)
SendTelegramTest(message) ==
    LET cfg == telegram
        trimmed == TrimSpace(message)
        msg == IF trimmed = << >> THEN DefaultTestMessage ELSE trimmed
        sent == Posting("SendTelegramTest", cfg, message, msg)
    IN  /\ call.pc \in {"idle", "returned"}
        /\ call' = IF cfg.BotToken = "" \/ cfg.ChatID = ""
                   THEN [NoCall EXCEPT !.op = "SendTelegramTest",
                                       !.pc = "returned", !.cfg = cfg,
                                       !.input = message,
                                       !.result = "telegram configuration incomplete"]
                   ELSE [sent EXCEPT !.result = IF sent.pc = "returned"
                                                THEN sent.err ELSE "none"]
        /\ UNCHANGED <<telegram, lastSent, alertActive, sendVars>>

\* Mutant of NotifyFilterUpdate: no notification while the cpu alert is on.
NotifyFilterUpdateQuietWhenAlerting(update) ==
    LET cfg == telegram
        msg == composeFilterUpdateMessage(cfg, update)
        sent == Posting("NotifyFilterUpdate", cfg, << >>, msg)
    IN  /\ call.pc \in {"idle", "returned"}
        /\ call' = IF CheckSkipped(cfg) \/ msg = << >>
                      \/ "cpu" \in DOMAIN alertActive
                   THEN [NoCall EXCEPT !.op = "NotifyFilterUpdate",
                                       !.pc = "returned", !.cfg = cfg,
                                       !.result = "nothing"]
                   ELSE [sent EXCEPT !.result = IF sent.pc = "returned"
                                                THEN "nothing" ELSE "none",
                                     !.logged = sent.pc = "returned"
                                                /\ sent.err # "nil"]
        /\ UNCHANGED <<telegram, lastSent, alertActive, sendVars>>

(* Manager.NotifyFilterUpdate up to m.client.Do. *)
NotifyFilterUpdate(update) ==
    LET cfg == telegram
        msg == composeFilterUpdateMessage(cfg, update)
        sent == Posting("NotifyFilterUpdate", cfg, << >>, msg)
    IN  /\ call.pc \in {"idle", "returned"}
        /\ call' = IF CheckSkipped(cfg) \/ msg = << >>
                   THEN [NoCall EXCEPT !.op = "NotifyFilterUpdate",
                                       !.pc = "returned", !.cfg = cfg,
                                       !.result = "nothing"]
                   ELSE [sent EXCEPT !.result = IF sent.pc = "returned"
                                                THEN "nothing" ELSE "none",
                                     !.logged = sent.pc = "returned"
                                                /\ sent.err # "nil"]
        /\ UNCHANGED <<telegram, lastSent, alertActive, sendVars>>

\* Mutant of ClientDo: NotifyFilterUpdate posts once more after an error.
ClientDoRetries(resp) ==
    LET err == Answer(resp)
    IN  /\ call.pc = "posting"
        /\ call' = IF call.op = "SendTelegramTest"
                   THEN [call EXCEPT !.pc = "returned", !.resp = resp,
                                     !.err = err, !.result = err]
                   ELSE IF err # "nil" /\ call.posts = 1
                   THEN [call EXCEPT !.attempts = 2, !.posts = 2, !.resp = resp]
                   ELSE [call EXCEPT !.pc = "returned", !.resp = resp,
                                     !.err = err, !.result = "nothing",
                                     !.logged = err # "nil"]
        /\ UNCHANGED <<telegram, lastSent, alertActive, sendVars>>

(* m.client.Do returns and sendTelegram with it: SendTelegramTest returns  *)
(* the error to its caller, NotifyFilterUpdate logs it and returns.        *)
ClientDo(resp) ==
    LET err == Answer(resp)
    IN  /\ call.pc = "posting"
        /\ call' = IF call.op = "SendTelegramTest"
                   THEN [call EXCEPT !.pc = "returned", !.resp = resp,
                                     !.err = err, !.result = err]
                   ELSE [call EXCEPT !.pc = "returned", !.resp = resp,
                                     !.err = err, !.result = "nothing",
                                     !.logged = err # "nil"]
        /\ UNCHANGED <<telegram, lastSent, alertActive, sendVars>>

\* Configurations: delivery on and off, a credential missing, a bot token
\* that is no part of a URL, thresholds at zero, a custom message with
\* white space around it and one longer than a message may be.
SendConfigs ==
    { BaseConfig,
      [BaseConfig EXCEPT !.Enabled = FALSE],
      [BaseConfig EXCEPT !.Enabled = FALSE, !.BotToken = ""],
      [BaseConfig EXCEPT !.ChatID = ""],
      [BaseConfig EXCEPT !.BotToken = "bad%token"],
      [BaseConfig EXCEPT !.CPUThreshold = 0, !.MemoryThreshold = 0,
                         !.DiskThreshold = 0,
                         !.CustomMessage = Str(<<" ", "h", "i", "\n">>)],
      [BaseConfig EXCEPT
          !.CustomMessage = Repeat("x", telegramMaxMessageLen + MaxOver)] }

\* Messages handed to SendTelegramTest: none, white space only, short with
\* and without white space around it, and around telegramMaxMessageLen
\* bytes long: one byte less, exactly, up to MaxOver more, more with white
\* space around it, and one with white space where it is cut.
TestMessages ==
    { << >>, Str(<<" ", "\t">>), Str(<<"h", "i">>),
      Str(<<" ", "h", " ", "i", "\n">>),
      Concat(Str(<<"\n">>),
             Concat(Repeat("x", telegramMaxMessageLen + MaxOver), Str(<<" ">>))),
      Concat(Repeat("x", telegramMaxMessageLen - 1), Str(<<" ", "y">>)) }
    \cup { Repeat("x", n) :
             n \in (telegramMaxMessageLen - 1)..(telegramMaxMessageLen + MaxOver) }

\* The alert state the monitor loop has left: nothing alerted yet, cpu
\* alerted at minute 1 and Active, cpu alerted at minute 1 and cleared.
AlertStates ==
    { [active |-> EmptyMap, sent |-> EmptyMap, at |-> ZeroTime],
      [active |-> MapSet(EmptyMap, "cpu", TRUE),
       sent |-> MapSet(EmptyMap, "cpu", 1), at |-> 1],
      [active |-> EmptyMap, sent |-> MapSet(EmptyMap, "cpu", 1), at |-> 1] }

\* The Manager with its loop at rest, in alert state a.
Resting(cfg, a) ==
    /\ telegram = normalizeTelegramConfig(cfg)
    /\ alertActive = a.active
    /\ lastSent = a.sent
    /\ deliveredAt = [x \in MetricSet |-> IF x = "cpu" THEN a.at ELSE ZeroTime]
    /\ now = IF a.at = ZeroTime THEN 0 ELSE a.at
    /\ stopCh = 0
    /\ closed = {}
    /\ wg = 0
    /\ loops = [g \in LoopIds |-> NoLoop]
    /\ stoppers = {}
    /\ released = {}
    /\ ctxDone = FALSE
    /\ mu = Unlocked
    /\ tasks = [t \in Tasks |-> Idle]
    /\ call = NoCall
    /\ persisted = Nil
    /\ puts = [r \in Requests |-> NoPut]
    /\ Untouched

InitSend ==
    \E c \in SendConfigs, a \in AlertStates :
        /\ DOMAIN a.active # {} => c.Enabled /\ c.CPUThreshold > 0
        /\ Resting(c, a)

NextSend ==
    \/ \E message \in TestMessages : SendTelegramTest(message)
    \/ \E update \in FilterUpdates : NotifyFilterUpdate(update)
    \/ \E resp \in Responses : ClientDo(resp)
    \/ \E c \in SendConfigs : UpdateTelegramConfig(c)

SpecSend == InitSend /\ [][NextSend]_vars

----------------------------------------------------------------------------
(* PUT /control/notifications/telegram.  An int64 is the sequence of its  *)
(* four 16-bit limbs, the lowest first, in two's complement, so that the  *)
(* products of telegramConfigFromJSON wrap as they do in Go.  A duration  *)
(* is an int64 of nanoseconds.                                            *)

Limb == 65536
SignLimb == 32768

\* The int64 of a natural number below 2^31, and of four limbs.
Int64Of(n) == <<n % Limb, n \div Limb, 0, 0>>
Int64(l1, l2, l3, l4) == <<l1, l2, l3, l4>>

\* x * k and x + k in int64, for 0 <= k < 2^15: what overflows is dropped.
Mul(x, k) ==
    LET p1 == x[1] * k
        p2 == x[2] * k + (p1 \div Limb)
        p3 == x[3] * k + (p2 \div Limb)
        p4 == x[4] * k + (p3 \div Limb)
    IN  <<p1 % Limb, p2 % Limb, p3 % Limb, p4 % Limb>>

Add(x, k) ==
    LET p1 == x[1] + k
        p2 == x[2] + (p1 \div Limb)
        p3 == x[3] + (p2 \div Limb)
        p4 == x[4] + (p3 \div Limb)
    IN  <<p1 % Limb, p2 % Limb, p3 % Limb, p4 % Limb>>

\* -x in int64.
Neg(x) == Add([i \in 1..4 |-> Limb - 1 - x[i]], 1)

\* x < y for signed int64: the limbs compared from the highest, the sign
\* bit of the highest counted the other way round.
Less(x, y) ==
    LET hx == (x[4] + SignLimb) % Limb
        hy == (y[4] + SignLimb) % Limb
    IN  \/ hx < hy
        \/ hx = hy /\ x[3] < y[3]
        \/ hx = hy /\ x[3] = y[3] /\ x[2] < y[2]
        \/ hx = hy /\ x[3] = y[3] /\ x[2] = y[2] /\ x[1] < y[1]

\* time.Duration(v) * time.Millisecond: v times 1,000,000, in int64.
Milliseconds(v) == Mul(Mul(v, 1000), 1000)

MinuteDuration == Mul(Milliseconds(Int64Of(60)), 1000)
minTelegramInterval == MinuteDuration
maxTelegramInterval == Mul(MinuteDuration, 24 * 60)
minTelegramCooldown == MinuteDuration
maxTelegramCooldown == Mul(MinuteDuration, 24 * 60)

\* time.Duration(cfg.CheckInterval) in the unit of the Manager's clock: the
\* whole minutes of a duration between a minute and 24 hours.
Minutes(d) ==
    IF Less(d, MinuteDuration) THEN 0
    ELSE CHOOSE m \in 1..(24 * 60) :
            /\ ~Less(d, Mul(MinuteDuration, m))
            /\ m < 24 * 60 => Less(d, Mul(MinuteDuration, m + 1))

\* BotToken and ChatID arrive as bytes and are trimmed; the Manager only
\* compares them.  Bytes(t) is the bytes of a credential of the model and
\* Credential(s) the credential of those bytes.
Credentials == {"", "token", "chat"}
Bytes(t) ==
    CASE t = "" -> << >>
      [] t = "token" -> Str(<<"t", "o", "k", "e", "n">>)
      [] t = "chat" -> Str(<<"c", "h", "a", "t">>)
Credential(s) == CHOOSE t \in Credentials : Bytes(t) = s
Padded(s) == Concat(Str(<<" ">>), Concat(s, Str(<<"\n">>)))

\* The bodies of PUT requests: one that is no JSON, and objects.  The base
\* object is valid; the others differ from it in one respect: delivery off
\* without credentials, a credential of white space, a missing chat id, a
\* padded token, thresholds at and beyond 0 and 100, and for check_interval
\* and cooldown the ends of the range, their neighbours, zero, a negative
\* value, 2^58 + 60000 (whose product with 1,000,000 is a minute), 2^63 - 1
\* and 2^62.
MalformedRequest == [json |-> "malformed"]
BaseRequest ==
    [json |-> "object", Enabled |-> TRUE,
     BotToken |-> Bytes("token"), ChatID |-> Bytes("chat"),
     CPUThreshold |-> 50, MemoryThreshold |-> 50, DiskThreshold |-> 50,
     CheckInterval |-> Int64Of(120000), Cooldown |-> Int64Of(60000),
     CustomMessage |-> Str(<<" ", "h", "i", "\n">>)]
IntervalValues ==
    { Int64Of(59999), Int64Of(60000), Int64Of(86400000), Int64Of(86400001),
      Int64Of(0), Neg(Int64Of(60000)), Int64(60000, 0, 0, 1024),
      Int64(65535, 65535, 65535, 32767), Int64(0, 0, 0, 16384) }
CooldownValues ==
    { Int64Of(59999), Int64Of(86400000), Int64(60000, 0, 0, 1024),
      Neg(Int64Of(1)) }
PutBodies ==
    { MalformedRequest, BaseRequest,
      [BaseRequest EXCEPT !.Enabled = FALSE, !.BotToken = << >>,
                          !.ChatID = << >>],
      [BaseRequest EXCEPT !.BotToken = Str(<<" ", "\t">>)],
      [BaseRequest EXCEPT !.ChatID = << >>],
      [BaseRequest EXCEPT !.BotToken = Padded(Bytes("token")),
                          !.CustomMessage = << >>],
      [BaseRequest EXCEPT !.CPUThreshold = -1],
      [BaseRequest EXCEPT !.MemoryThreshold = 101],
      [BaseRequest EXCEPT !.DiskThreshold = 100, !.CPUThreshold = 0] }
    \cup { [BaseRequest EXCEPT !.CheckInterval = v] : v \in IntervalValues }
    \cup { [BaseRequest EXCEPT !.Cooldown = v] : v \in CooldownValues }

\* telegramConfig.applyDefaults: an interval or a cooldown that is not
\* positive becomes the default of one minute.
applyDefaults(cfg) ==
    [cfg EXCEPT
        !.CheckInterval = IF Less(Int64Of(0), @) THEN @ ELSE MinuteDuration,
        !.Cooldown = IF Less(Int64Of(0), @) THEN @ ELSE MinuteDuration]

\* defaultTelegramConfig: delivery off, nothing set, the default interval
\* and cooldown.
defaultTelegramConfig ==
    [Enabled |-> FALSE, BotToken |-> << >>, ChatID |-> << >>,
     CPUThreshold |-> 0, MemoryThreshold |-> 0, DiskThreshold |-> 0,
     CheckInterval |-> MinuteDuration, Cooldown |-> MinuteDuration,
     CustomMessage |-> << >>]

\* telegramConfigFromJSON.
telegramConfigFromJSON(j) ==
    LET check == Milliseconds(j.CheckInterval)
        cooldown == Milliseconds(j.Cooldown)
        cfg == [Enabled |-> j.Enabled,
                BotToken |-> TrimSpace(j.BotToken),
                ChatID |-> TrimSpace(j.ChatID),
                CPUThreshold |-> j.CPUThreshold,
                MemoryThreshold |-> j.MemoryThreshold,
                DiskThreshold |-> j.DiskThreshold,
                CheckInterval |-> check, Cooldown |-> cooldown,
                CustomMessage |-> TrimSpace(j.CustomMessage)]
    IN  IF Less(check, minTelegramInterval) \/ Less(maxTelegramInterval, check)
        THEN [err |-> "check_interval", cfg |-> Nil]
        ELSE IF Less(cooldown, minTelegramCooldown)
                \/ Less(maxTelegramCooldown, cooldown)
        THEN [err |-> "cooldown", cfg |-> Nil]
        ELSE IF \E value \in {j.CPUThreshold, j.MemoryThreshold,
                              j.DiskThreshold} : value < 0 \/ value > 100
        THEN [err |-> "threshold", cfg |-> Nil]
        ELSE IF cfg.Enabled /\ (cfg.BotToken = << >> \/ cfg.ChatID = << >>)
        THEN [err |-> "bot_token and chat_id are required", cfg |-> Nil]
        ELSE [err |-> "nil", cfg |-> applyDefaults(cfg)]

\* buildRuntimeTelegramConfig.
buildRuntimeTelegramConfig(cfg) ==
    [Enabled |-> cfg.Enabled,
     BotToken |-> Credential(cfg.BotToken),
     ChatID |-> Credential(cfg.ChatID),
     CPUThreshold |-> cfg.CPUThreshold,
     MemoryThreshold |-> cfg.MemoryThreshold,
     DiskThreshold |-> cfg.DiskThreshold,
     CheckInterval |-> Minutes(cfg.CheckInterval),
     Cooldown |-> Minutes(cfg.Cooldown),
     CustomMessage |-> cfg.CustomMessage]

StatusBadRequest == 400
StatusUnprocessableEntity == 422

putFrame == <<stopCh, closed, wg, loops, stoppers, released, ctxDone, now,
              deliveredAt, mu, tasks, call, infoVars, calc>>

\* handlePutTelegramConfig up to config.Lock(): the body is decoded and
\* validated; a body that fails either is answered and the handler returns.
\* Requests arrive in the order of their numbers.
PutValidate(r, req) ==
    LET res == telegramConfigFromJSON(req)
    IN  /\ puts[r].pc = "none"
        /\ r > 1 => puts[r - 1].pc # "none"
        /\ puts' = [puts EXCEPT ![r] =
              IF req.json = "malformed"
              THEN [NoPut EXCEPT !.pc = "rejected", !.req = req,
                                 !.status = StatusBadRequest]
              ELSE IF res.err # "nil"
              THEN [NoPut EXCEPT !.pc = "rejected", !.req = req,
                                 !.status = StatusUnprocessableEntity]
              ELSE [NoPut EXCEPT !.pc = "validated", !.req = req,
                                 !.cfg = res.cfg]]
        /\ UNCHANGED <<telegram, lastSent, alertActive, persisted, putFrame>>

\* handlePutTelegramConfig from config.Lock() to config.Unlock().
PutStore(r) ==
    /\ puts[r].pc = "validated"
    /\ LET cfg == puts[r].cfg
           current == IF persisted = Nil THEN defaultTelegramConfig
                      ELSE persisted
       IN  /\ persisted' = applyDefaults(cfg)
           /\ puts' = [puts EXCEPT ![r] =
                 [@ EXCEPT !.pc = "stored",
                           !.changed = current # cfg,
                           !.runtimeCfg =
                               buildRuntimeTelegramConfig(applyDefaults(cfg))]]
    /\ UNCHANGED <<telegram, lastSent, alertActive, putFrame>>

\* handlePutTelegramConfig after config.Unlock(): the notifier is given the
\* runtime configuration (Manager.UpdateTelegramConfig) and the request is
\* answered.
PutApply(r) ==
    LET cfg == normalizeTelegramConfig(puts[r].runtimeCfg)
    IN  /\ puts[r].pc = "stored"
        /\ telegram' = cfg
        /\ alertActive' = IF ~cfg.Enabled THEN EmptyMap ELSE alertActive
        /\ puts' = [puts EXCEPT ![r] =
              [@ EXCEPT !.pc = "done", !.status = StatusOK,
                        !.updates = @ + 1]]
        /\ UNCHANGED <<lastSent, persisted, putFrame>>

InitHttp == \E a \in AlertStates : Resting(BaseConfig, a)

NextHttp ==
    \/ \E r \in Requests, req \in PutBodies : PutValidate(r, req)
    \/ \E r \in Requests : PutStore(r)
    \/ \E r \in Requests : PutApply(r)

SpecHttp == InitHttp /\ [][NextHttp]_vars

----------------------------------------------------------------------------
(* The formatting functions of the messages.  A uint64 is four limbs like *)
(* an int64, read without a sign.                                          *)

\* s[k:], for k <= len(s).
RECURSIVE Drop(_, _)
Drop(s, k) ==
    IF k = 0 \/ s = << >> THEN s
    ELSE IF Head(s).n <= k THEN Drop(Tail(s), k - Head(s).n)
    ELSE <<[Head(s) EXCEPT !.n = @ - k]>> \o Tail(s)

\* strings.TrimRight(s, cutset).
RECURSIVE TrimRightCutset(_, _)
TrimRightCutset(s, cutset) ==
    IF s # << >> /\ s[Len(s)].c \in cutset
    THEN TrimRightCutset(SubSeq(s, 1, Len(s) - 1), cutset)
    ELSE s

\* strings.TrimSuffix(s, suffix).
TrimSuffix(s, suffix) ==
    IF Length(s) >= Length(suffix)
       /\ Drop(s, Length(s) - Length(suffix)) = suffix
    THEN Prefix(s, Length(s) - Length(suffix))
    ELSE s

\* The parts in the opposite order.
RECURSIVE Reverse(_)
Reverse(parts) ==
    IF parts = << >> THEN << >> ELSE Reverse(Tail(parts)) \o <<Head(parts)>>

DigitBytes == <<"0", "1", "2", "3", "4", "5", "6", "7", "8", "9">>

\* fmt.Sprintf("%d", n) for an integer of the model, 0 <= n.
RECURSIVE Decimal(_)
Decimal(n) ==
    IF n < 10 THEN <<DigitBytes[n + 1]>>
    ELSE Decimal(n \div 10) \o <<DigitBytes[(n % 10) + 1]>>

\* x / k and x % k for a uint64 x and 0 < k <= 2^15.
DivMod(x, k) ==
    LET q4 == x[4] \div k
        t3 == (x[4] % k) * Limb + x[3]
        t2 == (t3 % k) * Limb + x[2]
        t1 == (t2 % k) * Limb + x[1]
    IN  [q |-> <<t1 \div k, t2 \div k, t3 \div k, q4>>, r |-> t1 % k]

\* strconv.FormatUint(x, 10), as bytes.
RECURSIVE FormatUintBytes(_)
FormatUintBytes(x) ==
    LET d == DivMod(x, 10)
    IN  IF d.q = Int64Of(0) THEN <<DigitBytes[d.r + 1]>>
        ELSE FormatUintBytes(d.q) \o <<DigitBytes[d.r + 1]>>

\* strconv.FormatInt(v, 10): a minus sign and the digits of the magnitude
\* for a negative value (the magnitude of the minimum is 2^63).
FormatInt(v) ==
    IF Less(v, Int64Of(0))
    THEN Str(<<"-">> \o FormatUintBytes(Neg(v)))
    ELSE Str(FormatUintBytes(v))

\* The loop of formatIntegerString: the last three bytes of s are taken off
\* while s has more than three, then what is left is appended.
RECURSIVE IntegerParts(_)
IntegerParts(s) ==
    IF Length(s) > 3
    THEN <<Drop(s, Length(s) - 3)>> \o IntegerParts(Prefix(s, Length(s) - 3))
    ELSE IF s # << >> THEN <<s>> ELSE << >>

\* formatIntegerString.
formatIntegerString(s, negative) ==
    IF Length(s) <= 3
    THEN IF negative THEN Concat(Str(<<"-">>), s) ELSE s
    ELSE LET result == Join(Reverse(IntegerParts(s)), Str(<<",">>))
         IN  IF negative THEN Concat(Str(<<"-">>), result) ELSE result

\* formatInt64: -val wraps for the minimum, which stays negative.
formatInt64(val) ==
    LET neg == Less(val, Int64Of(0))
        abs == IF neg THEN Neg(val) ELSE val
    IN  formatIntegerString(FormatInt(abs), neg)

\* Mutant of formatUptime: the hours only when there are some.
formatUptimeHoursWhenPositive(seconds) ==
    LET d == seconds \div 86400
        h == (seconds % 86400) \div 3600
        m == (seconds % 3600) \div 60
        days == IF d > 0 THEN <<Str(Decimal(d) \o <<"d">>)>> ELSE << >>
        hours == IF h > 0 THEN <<Str(Decimal(h) \o <<"h">>)>> ELSE << >>
    IN  IF seconds = 0 THEN << >>
        ELSE Join(days \o hours \o <<Str(Decimal(m) \o <<"m">>)>>,
                  Str(<<" ">>))

\* formatUptime, for an uptime below 2^31 seconds.
formatUptime(seconds) ==
    LET d == seconds \div 86400
        h == (seconds % 86400) \div 3600
        m == (seconds % 3600) \div 60
        parts1 == IF d > 0 THEN <<Str(Decimal(d) \o <<"d">>)>> ELSE << >>
        parts2 == IF h > 0 \/ Len(parts1) > 0
                  THEN parts1 \o <<Str(Decimal(h) \o <<"h">>)>>
                  ELSE parts1
        parts3 == parts2 \o <<Str(Decimal(m) \o <<"m">>)>>
    IN  IF seconds = 0 THEN << >> ELSE Join(parts3, Str(<<" ">>))

\* The uptime line of systemOverviewLines, after the pictograph.
UptimeLine(seconds) ==
    LET uptime == formatUptime(seconds)
    IN  Concat(Str(<<"U", "p", "t", "i", "m", "e", ":", " ">>),
               IF uptime = << >> THEN Str(<<"-">>) ELSE uptime)

\* A float64 of the formatting functions: not a number, an infinity, or the
\* finite value num / 2^shift with its sign, num a uint64 below 2^53, which
\* a float64 holds exactly.  A percentage is a whole number of 32nds.
Float(neg, num, shift) ==
    [kind |-> "finite", neg |-> neg, num |-> num, shift |-> shift]
NaN == [kind |-> "nan", neg |-> FALSE, num |-> Int64Of(0), shift |-> 0]
Inf(neg) == [kind |-> "inf", neg |-> neg, num |-> Int64Of(0), shift |-> 0]
Percent(k) == Float(k < 0, Int64Of(IF k < 0 THEN -k ELSE k), 5)

\* q / 2^k with what the division drops, ten bits at a time: half is the
\* highest bit dropped, sticky whether a lower one was set.
RECURSIVE Halve(_, _, _, _)
Halve(q, k, half, sticky) ==
    IF k = 0 THEN [q |-> q, half |-> half, sticky |-> sticky]
    ELSE LET bits == IF k < 10 THEN k ELSE 10
             d == DivMod(q, 2 ^ bits)
             top == 2 ^ (bits - 1)
         IN  Halve(d.q, k - bits, d.r >= top,
                   sticky \/ half \/ d.r % top # 0)

\* The tenths "%.1f" prints for |v|: 10 * num / 2^shift rounded to the
\* nearest integer, a tie to the even one (strconv rounds the exact binary
\* value correctly).
Tenths(v) ==
    LET h == Halve(Mul(v.num, 10), v.shift, FALSE, FALSE)
    IN  IF h.half /\ (h.sticky \/ DivMod(h.q, 2).r = 1)
        THEN Add(h.q, 1)
        ELSE h.q

\* fmt.Sprintf("%.1f", v).
SprintfF1(v) ==
    LET d == DivMod(Tenths(v), 10)
    IN  Str((IF v.neg THEN <<"-">> ELSE << >>)
            \o FormatUintBytes(d.q) \o <<".", DigitBytes[d.r + 1]>>)

\* Mutant of formatFloat: the zeros are trimmed after the point is.
formatFloatPointFirst(v) ==
    LET formatted == TrimRightCutset(TrimSuffix(SprintfF1(v), Str(<<".">>)),
                                     {"0"})
    IN  IF formatted = << >> THEN Str(<<"0">>) ELSE formatted

\* formatFloat.
formatFloat(v) ==
    LET formatted == TrimSuffix(TrimRightCutset(SprintfF1(v), {"0"}),
                                Str(<<".">>))
    IN  IF formatted = << >> THEN Str(<<"0">>) ELSE formatted

\* formatPercentage.
formatPercentage(value) ==
    IF value.kind # "finite" THEN Str(<<"-">>)
    ELSE LET clamped == IF value.neg /\ value.num # Int64Of(0)
                        THEN Float(FALSE, Int64Of(0), 0)
                        ELSE value
         IN  Concat(formatFloat(clamped), Str(<<"%">>))

byteUnits == <<<<"B">>, <<"K", "B">>, <<"M", "B">>, <<"G", "B">>,
               <<"T", "B">>, <<"P", "B">>>>

\* value >= 1024 for a uint64.
AtLeast1024(value) ==
    value[4] > 0 \/ value[3] > 0 \/ value[2] > 0 \/ value[1] >= 1024

\* Mutant of chooseUnit: a value of exactly 1024 stays in its unit.
RECURSIVE chooseUnitAbove1024(_, _)
chooseUnitAbove1024(value, idx) ==
    IF AtLeast1024(value) /\ value # Int64Of(1024) /\ idx < Len(byteUnits) - 1
    THEN chooseUnitAbove1024(DivMod(value, 1024).q, idx + 1)
    ELSE idx

\* chooseUnit, from the index idx on (chooseUnit starts at 0).
RECURSIVE chooseUnitFrom(_, _)
chooseUnitFrom(value, idx) ==
    IF AtLeast1024(value) /\ idx < Len(byteUnits) - 1
    THEN chooseUnitFrom(DivMod(value, 1024).q, idx + 1)
    ELSE idx

chooseUnit(value) == chooseUnitFrom(value, 0)

\* formatBytesWithUnit: int64(value) keeps the limbs; float64(value) is
\* value for the values below 2^53, and the division by 1024^idx is exact.
formatBytesWithUnit(value, idx) ==
    LET i == IF idx < 0 THEN 0
             ELSE IF idx >= Len(byteUnits) THEN Len(byteUnits) - 1
             ELSE idx
        unit == Str(<<" ">> \o byteUnits[i + 1])
    IN  IF i = 0 THEN Concat(formatInt64(value), unit)
        ELSE Concat(formatFloat(Float(FALSE, value, 10 * i)), unit)

\* metricDisplayName, for the metrics runCheck names and the empty name.
metricDisplayName(metric) ==
    CASE metric = "cpu" -> Str(<<"C", "P", "U", " ", "u", "s", "a", "g",
            "e">>)
      [] metric = "memory" -> Str(<<"M", "e", "m", "o", "r", "y", " ", "u",
              "s", "a", "g", "e">>)
      [] metric = "disk" -> Str(<<"D", "i", "s", "k", " ", "u", "s", "a",
              "g", "e">>)
      [] OTHER -> Str(<<"M", "e", "t", "r", "i", "c">>)

\* alertHeadline.
alertHeadline(metric) ==
    Concat(metricDisplayName(metric), Str(<<" ", "e", "x", "c", "e", "e",
            "d", "e", "d", " ", "t", "h", "r", "e", "s", "h", "o", "l",
            "d">>))

\* systemOverviewLines, the words after the pictographs: the title, the
\* line of the CPU usage and the last line, the uptime.  The lines left out
\* are labels with values of the snapshot.
systemOverviewLines(info) ==
    << Str(<<"S", "y", "s", "t", "e", "m", " ", "O", "v", "e", "r", "v", "i",
            "e", "w">>),
       Concat(Str(<<"C", "P", "U", " ", "U", "s", "a", "g", "e", ":", " ">>),
               formatPercentage(info.CPUUsage)),
       UptimeLine(info.UptimeSeconds) >>

\* composeAlertMessage, the words after the pictographs.
composeAlertMessage(cfg, metric, value, threshold, info) ==
    LET prefix == TrimSpace(cfg.CustomMessage)
        lines == (IF prefix # << >> THEN <<prefix>> ELSE << >>)
                 \o << Concat(Str(<<"A", "l", "e", "r", "t", ":", " ">>),
                         alertHeadline(metric)),
                       << >>,
                       Str(<<"M", "e", "t", "r", "i", "c", "s">>),
                       Concat(Str(<<"M", "e", "t", "r", "i", "c", ":",
                               " ">>), metricDisplayName(metric)),
                       Concat(Str(<<"C", "u", "r", "r", "e", "n", "t", ":",
                               " ">>), formatPercentage(value)),
                       Concat(Str(<<"T", "h", "r", "e", "s", "h", "o", "l",
                               "d", ":", " ">>),
                               formatPercentage(threshold)),
                       << >> >>
                 \o systemOverviewLines(info)
    IN  Join(lines, Str(<<"\n">>))

\* The bytes of a string, and strings.Contains.
RECURSIVE Expand(_)
Expand(s) ==
    IF s = << >> THEN << >>
    ELSE IF Len(s) = 1 THEN [i \in 1..s[1].n |-> s[1].c]
    ELSE LET h == Len(s) \div 2
         IN  Expand(SubSeq(s, 1, h)) \o Expand(SubSeq(s, h + 1, Len(s)))

Contains(s, substr) ==
    LET e == Expand(s)
        u == Expand(substr)
    IN  \E i \in 0..(Len(e) - Len(u)) : SubSeq(e, i + 1, i + Len(u)) = u

\* The formatting functions called one after the other, on uptimes from
\* nothing to 2^31 - 1 seconds, on int64 values of every length of digits,
\* both signs and both ends of the range, on byte counts around the powers
\* of 1024 and at the ties of the rounding, on percentages below, in and
\* above 0..100, and on the alerts of the three metrics.
UptimeInputs ==
    { 0, 1, 59, 60, 61, 3599, 3600, 3661, 7200, 86399, 86400, 86460, 90000,
      93784, 172800, 8639999, 31536000, 2147483647 }

Int64Inputs ==
    { Int64Of(n) : n \in {0, 7, 42, 999, 1000, 1001, 12345, 123456, 999999,
                          1000000, 1234567890, 2147483647} }
    \cup { Neg(Int64Of(n)) : n \in {1, 42, 999, 1000, 123456, 1234567} }
    \cup { Int64(65535, 65535, 65535, 32767), Int64(0, 0, 0, 32768),
           Int64(1, 0, 0, 32768), Int64(0, 0, 0, 16384) }

ByteCounts ==
    { Int64Of(n) : n \in {0, 1, 999, 1000, 1023, 1024, 1075, 1076, 1280,
                          1536, 1792, 2048, 1048575, 1048576, 1610612736} }
    \cup { Int64(0, 16384, 0, 0), Int64(0, 0, 256, 0), Int64(0, 0, 384, 0),
           Int64(0, 0, 0, 4), Int64(65535, 65535, 65535, 31) }

\* For chooseUnit also the counts a float64 does not hold exactly.
UnitInputs ==
    ByteCounts \cup { Int64(0, 0, 0, 4096), Int64(0, 0, 0, 32768),
                      Int64(65535, 65535, 65535, 65535) }

UnitIndexes == 0..(Len(byteUnits) - 1)

PercentInputs ==
    { Percent(k) : k \in {-96, -1, 0, 1, 2, 8, 24, 40, 56, 320, 1600, 2880,
                          2896, 3056, 3198, 3199, 3200, 3216} }
    \cup { NaN, Inf(FALSE), Inf(TRUE) }

Snapshots ==
    { [CPUUsage |-> Percent(3056), UptimeSeconds |-> 90000],
      [CPUUsage |-> Percent(0), UptimeSeconds |-> 0] }

AlertConfigs ==
    { BaseConfig, [BaseConfig EXCEPT !.CustomMessage = Str(<<" ", "h", "i">>)] }

calcFrame == <<telegram, stopCh, closed, wg, lastSent, alertActive, loops,
               stoppers, released, ctxDone, now, deliveredAt, mu, tasks,
               call, homeVars, infoVars>>

Returned(fn, arg, out) == [fn |-> fn, arg |-> arg, out |-> out]

CallFormatUptime(seconds) ==
    /\ calc' = Returned("formatUptime", <<seconds>>, formatUptime(seconds))
    /\ UNCHANGED calcFrame

CallSystemOverviewLines(info) ==
    /\ calc' = Returned("systemOverviewLines", <<info>>,
                        systemOverviewLines(info))
    /\ UNCHANGED calcFrame

CallFormatInt64(val) ==
    /\ calc' = Returned("formatInt64", <<val>>, formatInt64(val))
    /\ UNCHANGED calcFrame

CallChooseUnit(value) ==
    /\ calc' = Returned("chooseUnit", <<value>>, chooseUnit(value))
    /\ UNCHANGED calcFrame

CallFormatBytesWithUnit(value, idx) ==
    /\ calc' = Returned("formatBytesWithUnit", <<value, idx>>,
                        formatBytesWithUnit(value, idx))
    /\ UNCHANGED calcFrame

CallFormatPercentage(value) ==
    /\ calc' = Returned("formatPercentage", <<value>>, formatPercentage(value))
    /\ UNCHANGED calcFrame

CallComposeAlertMessage(cfg, metric, value, threshold, info) ==
    /\ calc' = Returned("composeAlertMessage",
                        <<cfg, metric, value, threshold, info>>,
                        composeAlertMessage(cfg, metric, value, threshold, info))
    /\ UNCHANGED calcFrame

InitFormat == Resting(BaseConfig, [active |-> EmptyMap, sent |-> EmptyMap,
                                   at |-> ZeroTime])

NextFormat ==
    \/ \E seconds \in UptimeInputs : CallFormatUptime(seconds)
    \/ \E info \in Snapshots : CallSystemOverviewLines(info)
    \/ \E val \in Int64Inputs : CallFormatInt64(val)
    \/ \E value \in UnitInputs : CallChooseUnit(value)
    \/ \E value \in ByteCounts, idx \in UnitIndexes :
          CallFormatBytesWithUnit(value, idx)
    \/ \E value \in PercentInputs : CallFormatPercentage(value)
    \/ \E cfg \in AlertConfigs, metric \in MetricSet,
          value \in {Percent(3056), Percent(3200)},
          threshold \in {Percent(2880), Percent(2896)},
          info \in Snapshots :
          CallComposeAlertMessage(cfg, metric, value, threshold, info)

SpecFormat == InitFormat /\ [][NextFormat]_vars

----------------------------------------------------------------------------
(* Package systeminfo: lookupPublicIP and its cache.  The time is counted  *)
(* in minutes.  Collect calls lookupPublicIP from whatever goroutine calls *)
(* it, so calls can overlap.                                               *)

publicIPCacheTTL == 30

\* What a service answers: the request fails, or there is a status and a
\* body; newline says that the text of the body ends in a line feed.
Addresses == {"203.0.113.7", "2001:db8::7"}

FetchAnswers ==
    { [err |-> TRUE, status |-> 0, text |-> "", newline |-> FALSE],
      [err |-> FALSE, status |-> 503, text |-> "203.0.113.7",
       newline |-> FALSE],
      [err |-> FALSE, status |-> 200, text |-> "", newline |-> TRUE],
      [err |-> FALSE, status |-> 200, text |-> "<html>", newline |-> FALSE],
      [err |-> FALSE, status |-> 200, text |-> "203.0.113.7",
       newline |-> TRUE],
      [err |-> FALSE, status |-> 200, text |-> "2001:db8::7",
       newline |-> FALSE] }

\* fetchPublicIP on the answer of the service: the text without the space
\* around it when the status is 200 and the text is an address.
fetchPublicIP(answer) ==
    IF answer.err THEN ""
    ELSE IF answer.status # StatusOK THEN ""
    ELSE IF answer.text = "" THEN ""
    ELSE IF answer.text \notin Addresses THEN ""
    ELSE answer.text

\* Mutant of Fresh: a value fetched exactly the TTL ago is still fresh.
FreshUpToTTL(fetched, t) ==
    fetched # ZeroTime /\ t - fetched <= publicIPCacheTTL

\* time.Since(publicIPFetched) < publicIPCacheTTL at time t; the time since
\* the zero time is the largest Duration.
Fresh(fetched, t) ==
    fetched # ZeroTime /\ t - fetched < publicIPCacheTTL

\* The clock of the lookups runs to the TTL and MaxTime minutes beyond.
InfoHorizon == publicIPCacheTTL + MaxTime

infoFrame == <<telegram, stopCh, closed, wg, lastSent, alertActive, loops,
               stoppers, released, ctxDone, deliveredAt, mu, tasks, call,
               homeVars, calc>>

\* A minute passes, or the TTL less a minute.
TickInfo(d) ==
    /\ now + d <= InfoHorizon
    /\ now' = now + d
    /\ UNCHANGED <<infoVars, infoFrame>>

\* lookupPublicIP from RLock to the first return: the cache is read, and a
\* fresh value that is not empty is returned.
LookupRead(c) ==
    LET val == publicIPValue
        fresh == Fresh(publicIPFetched, now)
    IN  /\ lookups[c].pc = "idle"
        /\ lookups' = [lookups EXCEPT ![c] =
              IF fresh /\ val # ""
              THEN [NoLookup EXCEPT !.pc = "returned", !.val = val,
                                    !.fresh = fresh, !.result = val]
              ELSE [NoLookup EXCEPT !.pc = "fetching", !.val = val,
                                    !.fresh = fresh]]
        /\ UNCHANGED <<publicIPValue, publicIPFetched, now, infoFrame>>

\* The two fetches: the secondary service is asked when the primary gave
\* nothing; with nothing from both the value read before is returned.
LookupFetch(c, primary, secondary) ==
    LET first == fetchPublicIP(primary)
        ip == IF first = "" THEN fetchPublicIP(secondary) ELSE first
        got == IF first = "" THEN <<first, ip>> ELSE <<first>>
    IN  /\ lookups[c].pc = "fetching"
        /\ lookups' = [lookups EXCEPT ![c] =
              IF ip = ""
              THEN [@ EXCEPT !.pc = "returned", !.got = got, !.ip = ip,
                             !.result = lookups[c].val]
              ELSE [@ EXCEPT !.pc = "storing", !.got = got, !.ip = ip]]
        /\ UNCHANGED <<publicIPValue, publicIPFetched, now, infoFrame>>

\* From Lock to the last return: the address and the time are stored.
LookupStore(c) ==
    /\ lookups[c].pc = "storing"
    /\ publicIPValue' = lookups[c].ip
    /\ publicIPFetched' = now
    /\ lookups' = [lookups EXCEPT ![c] =
          [@ EXCEPT !.pc = "returned", !.stored = TRUE, !.result = lookups[c].ip]]
    /\ UNCHANGED <<now, infoFrame>>

\* The caller has the result; it may call again.
LookupReturn(c) ==
    /\ lookups[c].pc = "returned"
    /\ lookups' = [lookups EXCEPT ![c] = NoLookup]
    /\ UNCHANGED <<publicIPValue, publicIPFetched, now, infoFrame>>

InitInfo == NewManager(BaseConfig)

NextInfo ==
    \/ \E d \in {1, publicIPCacheTTL - 1} : TickInfo(d)
    \/ \E c \in Callers : LookupRead(c)
    \/ \E c \in Callers, primary \in FetchAnswers, secondary \in FetchAnswers :
          LookupFetch(c, primary, secondary)
    \/ \E c \in Callers : LookupStore(c)
    \/ \E c \in Callers : LookupReturn(c)

SpecInfo == InitInfo /\ [][NextInfo]_vars

----------------------------------------------------------------------------
(* Properties.  Stepped(g) says that goroutine g takes the step; Cur(g) is *)
(* the metric its handleMetric is about, with the value and the threshold  *)
(* runCheck passed.                                                        *)

Stepped(g) == loops'[g] # loops[g]
Cur(g) == Metrics[loops[g].idx]
CurValue(g) == ValueOf(loops[g].info, Cur(g))
CurThreshold(g) == ThresholdOf(loops[g].cfg, Cur(g))
InCycle(g) == loops[g].pc \in {"metric", "decide", "sending", "update"}

\* C1: when the delivery attempt of a check fails (the metric was read
\* Inactive, value >= threshold, cooldown elapsed), that check leaves the
\* active map and the last-alert times exactly as they were; and as long as
\* the stored state of the metric is still the one the check had read, a check
\* at any later time under the same cooldown finds the metric Inactive with
\* the cooldown elapsed, which is the condition on which a check with
\* value >= threshold calls sendAlert: the attempt is made again.
C1_FailedDeliveryLeavesStateForRetry ==
    [][\A g \in LoopIds :
        (loops[g].pc = "sending" /\ Stepped(g) /\ loops'[g].pc # "update")
        => /\ alertActive' = alertActive
           /\ lastSent' = lastSent
           /\ LET st == metricState(alertActive', lastSent', Cur(g))
              IN  st = <<loops[g].active, loops[g].last>>
                  => \A t \in now..(MaxTime + 1) :
                        /\ ~st[1]
                        /\ st[2] = ZeroTime \/ t - st[2] >= loops[g].cfg.Cooldown
                        /\ ShouldSend(st[1], st[2], CooldownOf(loops[g].cfg), t)]_vars

\* A check has had a delivery fail for cpu and goes on, cpu still Inactive.
C1_Witness ==
    \E g \in LoopIds :
        /\ loops[g].outcome["cpu"] = "failed"
        /\ loops[g].attempts["cpu"] = 1
        /\ "cpu" \notin DOMAIN alertActive

\* C2: in a cycle that passed the guard of runCheck (delivery enabled,
\* credentials present), a metric with value >= threshold > 0 that was read
\* Inactive and whose last alert is at least the cooldown ago gets a call of
\* sendAlert, the only one for that metric in the cycle; when the call
\* succeeds the metric is stored Active with the time read when the call
\* returned as its last-alert time.
C2_QualifyingMetricOneAttempt ==
    /\ [](\A g \in LoopIds : \A m \in MetricSet :
            /\ loops[g].attempts[m] <= 1
            /\ InCycle(g) =>
                 /\ loops[g].cfg.Enabled
                 /\ loops[g].cfg.BotToken # ""
                 /\ loops[g].cfg.ChatID # ""
            /\ loops[g].pc \in {"sending", "update"} => loops[g].attempts[Cur(g)] = 1)
    /\ [][\A g \in LoopIds :
            /\ (/\ loops[g].pc = "decide" /\ Stepped(g)
                /\ CurThreshold(g) > 0
                /\ CurValue(g) >= CurThreshold(g)
                /\ ~loops[g].active
                /\ (loops[g].last = ZeroTime
                    \/ now - loops[g].last >= loops[g].cfg.Cooldown))
               => /\ loops'[g].pc = "sending"
                  /\ loops'[g].idx = loops[g].idx
                  /\ loops[g].attempts[Cur(g)] = 0
                  /\ loops'[g].attempts[Cur(g)] = 1
            /\ (loops[g].pc = "sending" /\ loops'[g].pc = "update")
               => loops'[g].ts = now
            /\ (loops[g].pc = "update" /\ Stepped(g))
               => /\ Cur(g) \in DOMAIN alertActive'
                  /\ alertActive'[Cur(g)] = TRUE
                  /\ lastSent'[Cur(g)] = loops[g].ts]_vars

\* A check has delivered the alert for cpu and stored it Active with the time
\* of the attempt.
C2_Witness ==
    \E g \in LoopIds :
        /\ loops[g].outcome["cpu"] = "sent"
        /\ loops[g].attempts["cpu"] = 1
        /\ "cpu" \in DOMAIN alertActive
        /\ lastSent["cpu"] = deliveredAt["cpu"]

\* C3: a check that read a metric Active and sampled a value >= threshold x 0.9
\* (threshold > 0) makes no call of sendAlert for it and changes nothing in
\* the active map or the last-alert times: the metric stays Active, on every
\* such check.
C3_ActiveMetricNotRealerted ==
    [][\A g \in LoopIds :
        (/\ loops[g].pc = "decide" /\ Stepped(g)
         /\ loops[g].active
         /\ CurThreshold(g) > 0
         /\ CurValue(g) * resetDen >= CurThreshold(g) * resetNum)
        => /\ loops'[g].pc # "sending"
           /\ loops'[g].attempts[Cur(g)] = 0
           /\ alertActive' = alertActive
           /\ lastSent' = lastSent]_vars

\* A check found cpu Active with the value still at the threshold, sent
\* nothing, and cpu is still Active.
C3_Witness ==
    \E g \in LoopIds :
        /\ loops[g].outcome["cpu"] = "held"
        /\ loops[g].attempts["cpu"] = 0
        /\ ValueOf(loops[g].info, "cpu") >= ThresholdOf(loops[g].cfg, "cpu")
        /\ "cpu" \in DOMAIN alertActive
        /\ lastSent["cpu"] < now

\* C4: a check that read a metric Active and sampled 0 < value < threshold x 0.9
\* removes the metric's entry from the active map and makes no call of
\* sendAlert for it.
C4_DropBelowResetClearsSilently ==
    [][\A g \in LoopIds :
        (/\ loops[g].pc = "decide" /\ Stepped(g)
         /\ loops[g].active
         /\ 0 < CurValue(g)
         /\ CurValue(g) * resetDen < CurThreshold(g) * resetNum)
        => /\ Cur(g) \notin DOMAIN alertActive'
           /\ loops'[g].pc # "sending"
           /\ loops'[g].attempts[Cur(g)] = 0]_vars

\* A check has cleared cpu, which had been alerted, at a value under the
\* reset level.
C4_Witness ==
    \E g \in LoopIds :
        /\ loops[g].outcome["cpu"] = "reset"
        /\ loops[g].attempts["cpu"] = 0
        /\ "cpu" \notin DOMAIN alertActive
        /\ "cpu" \in DOMAIN lastSent

\* C5: a check of a metric whose threshold is <= 0 or whose value is <= 0
\* makes no call of sendAlert for it and leaves it without an entry in the
\* active map, whatever its state was.
C5_DisabledMetricCleared ==
    [][\A g \in LoopIds :
        (/\ loops[g].pc = "metric" /\ Stepped(g)
         /\ (CurThreshold(g) <= 0 \/ CurValue(g) <= 0))
        => /\ Cur(g) \notin DOMAIN alertActive'
           /\ loops'[g].pc \notin {"decide", "sending", "update"}
           /\ loops'[g].attempts[Cur(g)] = 0]_vars

\* A check has cleared cpu, which had been alerted, because its threshold or
\* its value was not positive.
C5_Witness ==
    \E g \in LoopIds :
        /\ loops[g].outcome["cpu"] = "off"
        /\ loops[g].attempts["cpu"] = 0
        /\ "cpu" \notin DOMAIN alertActive
        /\ "cpu" \in DOMAIN lastSent

\* C6: every alert delivered for a metric comes at least the cooldown of its
\* check cycle after the previous alert delivered for the same metric.
C6_DeliveriesCooldownApart ==
    [][\A g \in LoopIds :
        (loops[g].pc = "sending" /\ loops'[g].pc = "update")
        => \/ deliveredAt[Cur(g)] = ZeroTime
           \/ now - deliveredAt[Cur(g)] >= loops[g].cfg.Cooldown]_vars

\* C7: while the stored configuration has delivery disabled, the active map
\* is empty.
C7_DisabledKeepsMapEmpty ==
    ~telegram.Enabled => DOMAIN alertActive = {}

\* C8 as stated: a metric without an entry in the active map reads as never
\* alerted, active=false and no last-alert time.
C8_ClearedReadsAsNeverAlerted ==
    \A m \in MetricSet :
        m \notin DOMAIN alertActive
        => metricState(alertActive, lastSent, m) = <<FALSE, ZeroTime>>

\* C8 amended: every step that removes a metric from the active map (the
\* reset under threshold x 0.9, the threshold<=0/value<=0 rule, a disabling
\* UpdateTelegramConfig) leaves all last-alert times as they were: the metric
\* then reads active=false with the time of its last delivered alert, and
\* only a metric that was never alerted reads without a last-alert time.
C8_ClearKeepsLastAlertTime ==
    /\ [](DOMAIN alertActive \subseteq DOMAIN lastSent)
    /\ [][\A m \in MetricSet :
            (m \in DOMAIN alertActive /\ m \notin DOMAIN alertActive')
            => /\ lastSent' = lastSent
               /\ metricState(alertActive', lastSent', m) = <<FALSE, lastSent[m]>>
               /\ lastSent[m] # ZeroTime]_vars

\* cpu has been alerted and cleared: no entry in the active map, its
\* last-alert time still stored.
C8_Witness ==
    /\ "cpu" \notin DOMAIN alertActive
    /\ "cpu" \in DOMAIN lastSent
    /\ metricState(alertActive, lastSent, "cpu")[2] = deliveredAt["cpu"]

\* C9: a check cycle that reads a configuration with delivery not enabled, or
\* with an empty bot token or chat id, returns at once: no handleMetric, no
\* call of sendAlert, the active map and the last-alert times unchanged.
C9_SkippedCheckChangesNothing ==
    [][\A g \in LoopIds :
        (/\ loops[g].pc = "select" /\ Stepped(g) /\ loops'[g].pc # "exited"
         /\ (~telegram.Enabled \/ telegram.BotToken = "" \/ telegram.ChatID = ""))
        => /\ loops'[g].pc = "arm"
           /\ loops'[g].attempts = NoAttempts
           /\ alertActive' = alertActive
           /\ lastSent' = lastSent]_vars

\* A check cycle was skipped while cpu was Active and delivery was enabled
\* with a credential missing; cpu is still Active.
C9_Witness ==
    \E g \in LoopIds :
        /\ loops[g].pc = "arm"
        /\ loops[g].skipped
        /\ telegram.Enabled
        /\ "cpu" \in DOMAIN alertActive

\* C10: at most one goroutine of Manager.loop is alive at any moment.
C10_AtMostOneLoop ==
    Cardinality({g \in LoopIds : Alive(g)}) <= 1

\* C11: whenever a call of Stop returns, no loop goroutine launched before the
\* call began is still alive.  A call that begins while m.stopCh is nil
\* returns in the state it began in, so in every state in which a further
\* caller can call Stop and m.stopCh is nil no loop is alive (on a Manager
\* that was never started this is the return without blocking); a caller in
\* m.wg.Wait() is woken only in a state without a live loop, so the loops
\* alive when it returns were launched after its call began.
C11_StopReturnsAfterLoopsExited ==
    /\ [](\A c \in Callers \ stoppers :
            stopCh = 0 => \A g \in LoopIds : ~Alive(g))
    /\ [][\A c \in Callers :
            (c \notin released /\ c \in released')
            => \A g \in LoopIds : loops'[g].pc \in {"none", "exited"}]_vars

C13_NoNewCycleAfterStop ==
    [][\A g \in LoopIds :
        (loops[g].pc = "select" /\ g \in closed /\ Stepped(g))
        => loops'[g].pc = "exited"]_vars

\* C14: a loop that is in its select with the timer not yet expired while
\* its stop channel is closed or the context is cancelled can return there
\* and then, without the timer being needed, and it does return in the end.
C14_SleepEndsOnStopOrCancel ==
    /\ [](\A g \in LoopIds :
            (/\ loops[g].pc = "select"
             /\ now < loops[g].deadline
             /\ (g \in closed \/ ctxDone))
            => ENABLED (/\ LoopStop(g) \/ LoopCtxDone(g)
                        /\ now' = now))
    /\ \A g \in LoopIds :
            (/\ loops[g].pc = "select"
             /\ now < loops[g].deadline
             /\ (g \in closed \/ ctxDone))
            ~> (loops[g].pc = "exited")

\* A loop has returned on its closed stop channel at minute 0, before the
\* timer of any interval could expire.
C14_Witness ==
    \E g \in LoopIds :
        /\ loops[g].pc = "exited"
        /\ g \in closed
        /\ ~ctxDone
        /\ now = 0

\* C15: whenever no loop goroutine is alive, a call of Start launches one,
\* also when the last loop returned on the cancelled context and Stop has
\* not been called since.
C15_StartLaunchesWhenNoLoopAlive ==
    (/\ \A g \in LoopIds : ~Alive(g)
     /\ \E g \in LoopIds : loops[g].pc = "none")
    => ENABLED (/\ Start
                /\ \E g \in LoopIds : loops[g].pc = "none" /\ Alive(g)')

\* C16 as stated: a delivery call in flight, made while the context was not
\* cancelled, ends only by its own outcome: the response of the provider
\* (delivered or refused), a transport failure or the timeout of the client.
\* Neither Stop nor the cancellation of the context ends it.
C16_DeliveryEndsOnlyByItsOutcome ==
    [][\A g \in LoopIds :
        (loops[g].pc = "sending" /\ loops[g].live /\ Stepped(g))
        => \/ loops'[g].pc = "update"
           \/ loops'[g] = NextMetric(loops[g], "failed")]_vars

\* C16 amended: Stop does not interrupt a delivery call in flight: while the
\* context is not cancelled the call ends only by its own outcome, whether
\* the stop channel is closed or not.  The cancellation of the context does
\* interrupt it: the call returns an error, and like any failed delivery it
\* leaves the active map and the last-alert times as they were.
C16_OnlyCancelInterruptsDelivery ==
    [][\A g \in LoopIds :
        (loops[g].pc = "sending" /\ Stepped(g))
        => \/ loops'[g].pc = "update"
           \/ loops'[g] = NextMetric(loops[g], "failed")
           \/ /\ ctxDone
              /\ loops'[g] = NextMetric(loops[g], "cancelled")
              /\ alertActive' = alertActive
              /\ lastSent' = lastSent]_vars

\* On a loop whose stop channel is closed the alert for cpu was delivered
\* and the delivery for memory was cut short by the cancellation of the
\* context.
C16_Witness ==
    \E g \in LoopIds :
        /\ g \in closed
        /\ ctxDone
        /\ loops[g].outcome["cpu"] = "sent"
        /\ loops[g].outcome["memory"] = "cancelled"

\* C17: a goroutine of the Manager that has a delivery call in flight
\* (runCheck in sendAlert, SendTelegramTest, NotifyFilterUpdate) holds
\* neither the read nor the write lock of m.mu, so that with nothing but
\* deliveries going on the lock is free for UpdateTelegramConfig, Start or
\* Stop to take; and the active map and the last-alert times are written by
\* runCheck only outside a delivery call, the entry of a delivered alert
\* after its call has returned.
C17_NoLockAcrossDelivery ==
    /\ [](\A t \in Tasks :
            tasks[t].at = "sendTelegram" => ~HoldsLock(t))
    /\ []((\A t \in Tasks : tasks[t].at \in {"idle", "sendTelegram"})
            => CanLock)
    /\ [][\A t \in Tasks :
            /\ tasks[t].at = "sendTelegram"
               => (alertActive' = alertActive /\ lastSent' = lastSent)
                  \/ tasks'[t] = tasks[t]
            /\ (tasks[t].at = "updateMetricState" /\ tasks[t].active
                /\ tasks'[t] # tasks[t])
               => /\ mu.w = t
                  /\ alertActive'[Metrics[tasks[t].idx]]]_vars

\* UpdateTelegramConfig holds the write lock while runCheck,
\* SendTelegramTest and NotifyFilterUpdate all have a delivery in flight.
C17_Witness ==
    /\ mu.w = "UpdateTelegramConfig"
    /\ tasks["runCheck"].at = "sendTelegram"
    /\ tasks["SendTelegramTest"].at = "sendTelegram"
    /\ tasks["NotifyFilterUpdate"].at = "sendTelegram"

\* C18: a call of UpdateTelegramConfig (the one step that moves neither a
\* loop nor the lifecycle nor the clock) leaves a normalized configuration
\* handed to it stored, every field of it; when that configuration has
\* delivery disabled the active map is empty when the call returns, and
\* when it has delivery enabled the active map and the last-alert times are
\* what they were before the call.
C18_UpdateReplacesConfig ==
    [][(/\ loops' = loops
        /\ now' = now
        /\ ctxDone' = ctxDone
        /\ stopCh' = stopCh
        /\ stoppers' = stoppers)
        => /\ telegram' \in StoredConfigs
           /\ ~telegram'.Enabled => DOMAIN alertActive' = {}
           /\ telegram'.Enabled => /\ alertActive' = alertActive
                                  /\ lastSent' = lastSent]_vars

\* cpu was alerted under the complete configuration and is still Active
\* with its last-alert time after an update to an enabled configuration
\* without bot token.
C18_Witness ==
    /\ telegram.Enabled
    /\ telegram.BotToken = ""
    /\ "cpu" \in DOMAIN alertActive
    /\ lastSent["cpu"] = deliveredAt["cpu"]
    /\ \A g \in LoopIds : ~InCycle(g)

\* C19: the stored check interval and the stored cooldown are above zero in
\* every state, from NewManager on and through every UpdateTelegramConfig;
\* what is stored for a configuration that came with an interval or a
\* cooldown of zero or less has one minute (defaultCheckInterval,
\* defaultCooldown) in its place and the value given otherwise.
C19_StoredDurationsPositive ==
    /\ telegram.CheckInterval > 0
    /\ telegram.Cooldown > 0
    /\ \E c \in IdleConfigs :
        /\ telegram = normalizeTelegramConfig(c)
        /\ telegram.CheckInterval = IF c.CheckInterval <= 0
                                    THEN defaultCheckInterval
                                    ELSE c.CheckInterval
        /\ telegram.Cooldown = IF c.Cooldown <= 0
                               THEN defaultCooldown
                               ELSE c.Cooldown

\* After minute 0 a loop sleeps on the interval of one minute stored for
\* the configuration that came with an interval of 0 and a cooldown of -1.
C19_Witness ==
    /\ telegram.CheckInterval = defaultCheckInterval
    /\ telegram.Cooldown = defaultCooldown
    /\ \E g \in LoopIds : /\ loops[g].pc = "select"
                           /\ loops[g].deadline = now + defaultCheckInterval
                           /\ now > 0

\* C20: the loop arms each sleep with the interval that is stored when the
\* timer is created; no step, an UpdateTelegramConfig that changes the
\* interval included, moves the deadline of a sleep in progress: the check
\* does not begin before that deadline and can begin from it on; the sleep
\* armed next takes the interval stored then.
C20_SleepUsesIntervalAtArming ==
    /\ [][\A g \in LoopIds :
            /\ (loops[g].pc = "arm" /\ Stepped(g))
               => /\ loops'[g].pc = "select"
                  /\ loops'[g].deadline = now + telegram.CheckInterval
            /\ (loops[g].pc = "select" /\ loops'[g].pc = "select")
               => loops'[g].deadline = loops[g].deadline
            /\ (loops[g].pc = "select" /\ Stepped(g)
                /\ loops'[g].pc # "exited")
               => now >= loops[g].deadline]_vars
    /\ [](\A g \in LoopIds :
            (loops[g].pc = "select" /\ now >= loops[g].deadline)
            => ENABLED (\E info \in RaceInfos : RunCheck(g, info)))

\* A loop sleeps until two minutes from now, armed this minute with the
\* interval of two minutes, while the interval stored has become one minute.
C20_Witness ==
    \E g \in LoopIds :
        /\ loops[g].pc = "select"
        /\ loops[g].deadline = now + 2
        /\ telegram.CheckInterval = 1

\* C21: on a Manager left running with delivery enabled and the credentials
\* present, where every check that begins while cpu is not Active samples a
\* cpu usage >= the threshold > 0 and where the deliveries for cpu succeed in
\* the end, cpu becomes Active whenever it is not: the cooldown after an
\* earlier alert runs out and the attempt is made, again after every failure.
\* A failed attempt leaves no trace that could delay the next one: the
\* last-alert time of a metric is never later than its last delivered alert,
\* and a check that reads a metric never alerted, at or above its threshold,
\* calls sendAlert whatever attempts have failed before.
C21_RetriedUntilActive ==
    /\ (("cpu" \notin DOMAIN alertActive) /\ (\E g \in LoopIds : Alive(g)))
         ~> ("cpu" \in DOMAIN alertActive)
    /\ [](\A m \in DOMAIN lastSent : lastSent[m] <= deliveredAt[m])
    /\ [][\A g \in LoopIds :
            (/\ loops[g].pc = "decide" /\ Stepped(g)
             /\ ~loops[g].active
             /\ deliveredAt[Cur(g)] = ZeroTime
             /\ CurValue(g) >= CurThreshold(g))
            => loops'[g].pc = "sending"]_vars

\* The delivery for cpu has failed in this check and an earlier alert for cpu
\* was delivered and cleared since: cpu is not Active, its cooldown of two
\* minutes still running.
C21_Witness ==
    \E g \in LoopIds :
        /\ loops[g].outcome["cpu"] = "failed"
        /\ "cpu" \notin DOMAIN alertActive
        /\ "cpu" \in DOMAIN lastSent
        /\ loops[g].cfg.Cooldown = 2
        /\ now - lastSent["cpu"] >= 2

\* What a call has: both credentials in the copy of the configuration it
\* works with.
HasCredentials(c) == c.cfg.BotToken # "" /\ c.cfg.ChatID # ""
IsTest == call.op = "SendTelegramTest" /\ call.pc # "idle"
IsNotify == call.op = "NotifyFilterUpdate" /\ call.pc # "idle"

\* C22: SendTelegramTest works with the configuration stored when it is
\* called.  With an empty bot token or an empty chat id in it, it returns the
\* error "telegram configuration incomplete" without calling sendTelegram
\* and without a request being posted.  With both present it calls
\* sendTelegram exactly once, delivery enabled or not, at most one request
\* is posted, and what it returns is what sendTelegram returned: the error or
\* nil that sendTelegram has for what m.client.Do came back with.
C22_TestNeedsCredentialsOnly ==
    /\ [](IsTest =>
            /\ ~HasCredentials(call)
               => /\ call.pc = "returned"
                  /\ call.result = "telegram configuration incomplete"
                  /\ call.attempts = 0
                  /\ call.posts = 0
            /\ HasCredentials(call)
               => /\ call.attempts = 1
                  /\ call.posts <= 1
                  /\ call.pc = "posting" => call.posts = 1
                  /\ call.pc = "returned"
                     => /\ call.result = call.err
                        /\ call.result \notin {"none", "nothing"}
                        /\ call.posts = 1 => call.err = Answer(call.resp))
    /\ [][(call' # call /\ call.pc # "posting") => call'.cfg = telegram]_vars

\* SendTelegramTest has returned nil, the message delivered, under a
\* configuration with delivery disabled.
C22_Witness ==
    /\ IsTest
    /\ call.pc = "returned"
    /\ ~call.cfg.Enabled
    /\ call.attempts = 1
    /\ call.posts = 1
    /\ call.result = "nil"

\* C23: when SendTelegramTest calls sendTelegram (credentials present), the
\* message it hands over is never empty: it is "AdGuard Home test
\* notification" for a message that is empty or white space only, and the
\* trimmed message otherwise; what is posted for an empty message is that
\* default text.
C23_EmptyTestMessageGetsDefault ==
    (IsTest /\ call.attempts = 1)
    => /\ call.msg # << >>
       /\ Length(call.msg) > 0
       /\ TrimSpace(call.input) = << >>
          => /\ call.msg = DefaultTestMessage
             /\ call.posts = 1 => call.text = DefaultTestMessage
       /\ TrimSpace(call.input) # << >> => call.msg = TrimSpace(call.input)

\* The default text has been posted for a message of a space and a tab.
C23_Witness ==
    /\ IsTest
    /\ call.input = Str(<<" ", "\t">>)
    /\ call.posts = 1
    /\ call.text = DefaultTestMessage
    /\ call.pc = "returned"

\* C24: no step of SendTelegramTest or NotifyFilterUpdate changes the active
\* map, the last-alert times or the stored configuration, whether the
\* delivery succeeds or fails; and whether the call goes as far as
\* sendTelegram depends on the credentials (and, for NotifyFilterUpdate, on
\* delivery being enabled) alone, whatever the thresholds are and whichever
\* metric is Active.
C24_CallsLeaveAlertStateAlone ==
    /\ [][call' # call
            => /\ alertActive' = alertActive
               /\ lastSent' = lastSent
               /\ telegram' = telegram]_vars
    /\ [](IsTest => (call.attempts = 1 <=> HasCredentials(call)))
    /\ [](IsNotify => (call.attempts = 1
                        <=> (call.cfg.Enabled /\ HasCredentials(call))))

\* A failed NotifyFilterUpdate, made under thresholds of zero while cpu was
\* Active, has returned, and cpu is still Active with its last-alert time.
C24_Witness ==
    /\ IsNotify
    /\ call.pc = "returned"
    /\ call.logged
    /\ call.cfg.CPUThreshold = 0
    /\ "cpu" \in DOMAIN alertActive
    /\ lastSent["cpu"] = deliveredAt["cpu"]

\* C25: NotifyFilterUpdate returns nothing to its caller.  With delivery not
\* enabled or the bot token or the chat id empty it does not call
\* sendTelegram and nothing is posted or logged; otherwise it calls
\* sendTelegram exactly once, at most one request is posted, and an error of
\* sendTelegram is logged and nothing else is done about it.
C25_FilterUpdateFireAndForget ==
    IsNotify =>
        /\ call.pc = "returned" => call.result = "nothing"
        /\ CheckSkipped(call.cfg)
           => /\ call.pc = "returned"
              /\ call.attempts = 0
              /\ call.posts = 0
              /\ ~call.logged
        /\ ~CheckSkipped(call.cfg)
           => /\ call.attempts = 1
              /\ call.posts <= 1
              /\ call.pc = "posting" => call.posts = 1
              /\ call.pc = "returned"
                 => (call.logged <=> call.err \notin {"nil", "none"})

\* NotifyFilterUpdate has returned after its one request failed: the error
\* is logged.
C25_Witness ==
    /\ IsNotify
    /\ call.pc = "returned"
    /\ call.attempts = 1
    /\ call.posts = 1
    /\ call.err = "send request"
    /\ call.logged

\* The provider has answered the request of the call with status 200 and a
\* body of no bytes.
EmptyAnswer ==
    /\ call.pc = "returned"
    /\ call.posts = 1
    /\ call.resp.kind = "http"
    /\ call.resp.status = StatusOK
    /\ call.resp.body.bytes = 0

C27_SuccessIffOkTrue ==
    (call.pc = "returned" /\ call.posts = 1)
    => (call.err = "nil"
        <=> /\ call.resp.kind = "http"
            /\ call.resp.status = StatusOK
            /\ call.resp.body.json = "object"
            /\ call.resp.body.ok = "true")

\* C28: the text posted is the message handed to sendTelegram with the white
\* space at its ends removed, cut to its first telegramMaxMessageLen bytes
\* when it has more and as it is otherwise (for SendTelegramTest that is the
\* trimmed message of the caller); it is never empty and never longer than
\* telegramMaxMessageLen bytes, and without a request posted there is no
\* text.
C28_PostedTextTrimmedAndCut ==
    LET trimmed == TrimSpace(call.msg)
    IN  /\ call.posts = 1
           => /\ Length(trimmed) > telegramMaxMessageLen
                 => call.text = Prefix(trimmed, telegramMaxMessageLen)
              /\ Length(trimmed) <= telegramMaxMessageLen
                 => call.text = trimmed
              /\ Length(call.text) <= telegramMaxMessageLen
              /\ Length(call.text) > 0
              /\ (IsTest /\ TrimSpace(call.input) # << >>)
                 => call.text = Prefix(TrimSpace(call.input),
                                       telegramMaxMessageLen)
                    \/ call.text = TrimSpace(call.input)
        /\ call.posts = 0 => call.text = << >>

\* What was posted is the first telegramMaxMessageLen bytes of a message
\* that is longer, the last of them a space.
C28_Witness ==
    /\ call.posts = 1
    /\ Length(call.msg) > telegramMaxMessageLen
    /\ Length(call.text) = telegramMaxMessageLen
    /\ call.text[Len(call.text)].c = " "
    /\ call.text = Prefix(call.msg, telegramMaxMessageLen)

\* Request r has arrived; it was accepted when its handler went on to store
\* its configuration.
Arrived(r) == puts[r].pc # "none"
Accepted(r) == puts[r].pc \in {"validated", "stored", "done"}

\* A number of milliseconds between a minute and 24 hours, the ends
\* included.
InMillisecondRange(v) ==
    /\ ~Less(v, Int64Of(60000))
    /\ ~Less(Int64Of(86400000), v)

\* What the validation is to turn down: a threshold outside 0..100, an
\* interval or a cooldown outside a minute..24 hours, delivery enabled with
\* a bot token or a chat id that is empty once trimmed.
Invalid(req) ==
    /\ req.json = "object"
    /\ \/ \E value \in {req.CPUThreshold, req.MemoryThreshold,
                        req.DiskThreshold} : value < 0 \/ value > 100
       \/ ~InMillisecondRange(req.CheckInterval)
       \/ ~InMillisecondRange(req.Cooldown)
       \/ req.Enabled /\ (TrimSpace(req.BotToken) = << >>
                          \/ TrimSpace(req.ChatID) = << >>)

\* C29 as stated: a PUT whose body has a threshold outside 0..100, an
\* interval or a cooldown outside a minute..24 hours, or delivery enabled
\* with an empty bot token or chat id is rejected with an error status,
\* UpdateTelegramConfig is not called for it, and the step that rejects a
\* request changes neither config.Notifications.Telegram nor the Manager's
\* configuration, active map and last-alert times.
C29_InvalidPutChangesNothing ==
    /\ [](\A r \in Requests :
            (Arrived(r) /\ Invalid(puts[r].req))
            => /\ puts[r].pc = "rejected"
               /\ puts[r].status = StatusUnprocessableEntity
               /\ puts[r].updates = 0)
    /\ [][\A r \in Requests :
            (puts[r].pc # "rejected" /\ puts'[r].pc = "rejected")
            => /\ persisted' = persisted
               /\ telegram' = telegram
               /\ alertActive' = alertActive
               /\ lastSent' = lastSent]_vars

\* C30 as stated: a PUT is accepted only if its check_interval and cooldown
\* lie in [60000, 86400000], and the interval and cooldown of the accepted
\* configuration are exactly that many milliseconds; a value whose product
\* with a millisecond overflows is not accepted.
C30_AcceptedIntervalsInRange ==
    \A r \in Requests :
        Accepted(r)
        => /\ InMillisecondRange(puts[r].req.CheckInterval)
           /\ InMillisecondRange(puts[r].req.Cooldown)
           /\ puts[r].cfg.CheckInterval
                = Milliseconds(puts[r].req.CheckInterval)
           /\ puts[r].cfg.Cooldown = Milliseconds(puts[r].req.Cooldown)

\* The bytes of a number with a comma before every group of three digits
\* counted from the right.
RECURSIVE Grouped(_)
Grouped(digits) ==
    IF digits = << >> THEN << >>
    ELSE <<Head(digits)>>
         \o (IF Len(digits) > 1 /\ (Len(digits) - 1) % 3 = 0
             THEN <<",">> ELSE << >>)
         \o Grouped(Tail(digits))

\* C31: formatUptime returns the empty string for 0 seconds, and for s > 0
\* the parts "<D>d", "<H>h", "<M>m" joined by spaces, with D = s div 86400,
\* H = (s mod 86400) div 3600, M = (s mod 3600) div 60, the days when
\* D > 0, the hours when D > 0 or H > 0, the minutes always; 90000 gives
\* "1d 1h 0m"; and the last line of systemOverviewLines shows an uptime of
\* 0 as "-".
C31_UptimeParts ==
    /\ calc.fn = "formatUptime"
       => LET s == calc.arg[1]
              D == s \div 86400
              H == (s % 86400) \div 3600
              M == (s % 3600) \div 60
              days == IF D > 0 THEN Decimal(D) \o <<"d", " ">> ELSE << >>
              hours == IF D > 0 \/ H > 0 THEN Decimal(H) \o <<"h", " ">>
                       ELSE << >>
          IN  /\ s = 0 => calc.out = << >>
              /\ s > 0 => calc.out = Str(days \o hours \o Decimal(M) \o <<"m">>)
              /\ s = 90000
                 => calc.out = Str(<<"1", "d", " ", "1", "h", " ", "0", "m">>)
    /\ calc.fn = "systemOverviewLines"
       => LET last == calc.out[Len(calc.out)]
              label == Str(<<"U", "p", "t", "i", "m", "e", ":", " ">>)
          IN  /\ Prefix(last, Length(label)) = label
              /\ calc.arg[1].UptimeSeconds = 0
                 => Drop(last, Length(label)) = Str(<<"-">>)
              /\ calc.arg[1].UptimeSeconds = 90000
                 => Drop(last, Length(label))
                      = Str(<<"1", "d", " ", "1", "h", " ", "0", "m">>)

\* formatUptime has returned "1d 0h 1m" for a day and a minute.
C31_Witness ==
    /\ calc.fn = "formatUptime"
    /\ calc.arg = <<86460>>
    /\ calc.out = Str(<<"1", "d", " ", "0", "h", " ", "1", "m">>)

\* C32 as stated: for every int64, the minimum included, formatInt64
\* returns the decimal digits of the absolute value in groups of three from
\* the right with commas between them, after exactly one "-" for a negative
\* value and after nothing otherwise.
C32_GroupedWithOneSign ==
    calc.fn = "formatInt64"
    => LET val == calc.arg[1]
           neg == Less(val, Int64Of(0))
           digits == FormatUintBytes(IF neg THEN Neg(val) ELSE val)
       IN  calc.out = Str((IF neg THEN <<"-">> ELSE << >>) \o Grouped(digits))

\* value / 1024^i for a uint64, and 1024^i * t.
RECURSIVE DivPow(_, _)
DivPow(value, i) ==
    IF i = 0 THEN value ELSE DivPow(DivMod(value, 1024).q, i - 1)

RECURSIVE MulPow(_, _)
MulPow(t, i) == IF i = 0 THEN t ELSE MulPow(Mul(t, 1024), i - 1)

\* x - y for x >= y.
Minus(x, y) ==
    LET n == Neg(y)
        p1 == x[1] + n[1]
        p2 == x[2] + n[2] + (p1 \div Limb)
        p3 == x[3] + n[3] + (p2 \div Limb)
        p4 == x[4] + n[4] + (p3 \div Limb)
    IN  <<p1 % Limb, p2 % Limb, p3 % Limb, p4 % Limb>>

\* The number of tenths nearest to value / 1024^i: the t with
\* 2 * |10 * value - t * 1024^i| <= 1024^i, the even one of two.
NearestTenths(value, i) ==
    LET twice == Mul(value, 20)
        unit == MulPow(Int64Of(1), i)
        floor == DivPow(Mul(value, 10), i)
        Off(t) == LET b == Mul(MulPow(t, i), 2)
                  IN  IF Less(twice, b) THEN Minus(b, twice)
                      ELSE Minus(twice, b)
    IN  CHOOSE t \in {floor, Add(floor, 1)} :
            /\ ~Less(unit, Off(t))
            /\ Off(t) = unit => DivMod(t, 2).r = 0

C34_PercentageRendering ==
    /\ (calc.fn = "formatPercentage" /\ calc.arg[1].kind = "finite")
       => LET value == calc.arg[1]
              k == IF value.neg THEN 0 ELSE value.num[1] + value.num[2] * Limb
              q == (10 * k) \div 32
              r == (10 * k) % 32
              t == IF r > 16 \/ (r = 16 /\ q % 2 = 1) THEN q + 1 ELSE q
              decimal == IF t % 10 = 0 THEN << >>
                         ELSE <<".", DigitBytes[(t % 10) + 1]>>
          IN  /\ calc.out = Str(Decimal(t \div 10) \o decimal \o <<"%">>)
              /\ value = Percent(2880) => calc.out = Str(<<"9", "0", "%">>)
              /\ value = Percent(2896)
                 => calc.out = Str(<<"9", "0", ".", "5", "%">>)
              /\ value = Percent(-96) => calc.out = Str(<<"0", "%">>)
    /\ (/\ calc.fn = "composeAlertMessage"
        /\ calc.arg[2] = "cpu"
        /\ calc.arg[3] = Percent(3056)
        /\ calc.arg[4] = Percent(2880))
       => /\ Contains(calc.out, Str(<<"9", "5", ".", "5", "%">>))
          /\ Contains(calc.out, Str(<<"9", "0", "%">>))
          /\ Contains(calc.out,
                      Concat(Str(<<"C", "P", "U", " ", "u", "s", "a", "g", "e">>),
                             Str(<<" ", "e", "x", "c", "e", "e", "d", "e", "d",
                                   " ", "t", "h", "r", "e", "s", "h", "o", "l",
                                   "d">>)))

\* The alert message for cpu at 95.5 over a threshold of 90 has been
\* composed, with its line "Threshold: 90%".
C34_Witness ==
    /\ calc.fn = "composeAlertMessage"
    /\ calc.arg[2] = "cpu"
    /\ calc.arg[3] = Percent(3056)
    /\ calc.arg[4] = Percent(2880)
    /\ Contains(calc.out, Str(<<"T", "h", "r", "e", "s", "h", "o", "l", "d",
                                ":", " ", "9", "0", "%", "\n">>))

\* C35 as stated: once two configuration PUT requests handled at the same
\* time have both been answered 200, the runtime configuration of the
\* Manager is the one built from the persisted configuration, and both are
\* the configuration of one and the same request.
C35_RuntimeMatchesPersisted ==
    (\A r \in Requests : puts[r].pc = "done")
    => /\ telegram
            = normalizeTelegramConfig(buildRuntimeTelegramConfig(persisted))
       /\ \E r \in Requests :
             /\ persisted = applyDefaults(puts[r].cfg)
             /\ telegram = normalizeTelegramConfig(puts[r].runtimeCfg)

\* The value of the metric a check is at lies in the band
\* threshold x 0.9 <= value < threshold.
InBand(g) ==
    LET value == ValueOf(loops[g].info, Cur(g))
        threshold == ThresholdOf(loops[g].cfg, Cur(g))
    IN  /\ threshold * resetNum <= value * resetDen
        /\ value < threshold

\* C36 as stated: the steps of a check at a metric whose value lies in the
\* band start no delivery and leave the active map and the last-alert times
\* as they are; and while no usage comes below threshold x 0.9, an alert is
\* delivered for a metric only when none has been delivered for it before.
C36_BandQuietOneAlert ==
    [][\A g \in LoopIds :
        /\ (/\ loops[g].pc \in {"metric", "decide"}
            /\ InBand(g)
            /\ loops'[g] # loops[g])
           => /\ loops'[g].pc \notin {"sending", "update"}
              /\ deliveredAt' = deliveredAt
              /\ alertActive' = alertActive
              /\ lastSent' = lastSent
        /\ (loops[g].pc = "sending" /\ loops'[g].pc = "update")
           => deliveredAt[Cur(g)] = ZeroTime]_vars

\* C37: a check cycle works on the configuration and the snapshot read at
\* its start, whatever is stored meanwhile; it takes the metrics in the
\* order cpu, memory, disk and ends after disk only; a step of the cycle at
\* one metric leaves the active flag and the last-alert time of every other
\* metric as they are; and a delivery that fails or is cancelled for a
\* metric before disk is followed by the evaluation of the next metric.
C37_MetricsIndependentInOrder ==
    [][\A g \in LoopIds :
        /\ (~InCycle(g) /\ InCycle(g)')
           => /\ loops'[g].idx = 1
              /\ loops'[g].cfg = telegram
        /\ (InCycle(g) /\ InCycle(g)')
           => /\ loops'[g].cfg = loops[g].cfg
              /\ loops'[g].info = loops[g].info
              /\ loops'[g].idx \in {loops[g].idx, loops[g].idx + 1}
              /\ loops'[g].idx = loops[g].idx + 1 => loops'[g].pc = "metric"
        /\ (InCycle(g) /\ ~InCycle(g)') => loops[g].idx = Len(Metrics)
        /\ (InCycle(g) /\ loops'[g] # loops[g])
           => \A metric \in MetricSet \ {Cur(g)} :
                 /\ (metric \in DOMAIN alertActive')
                      = (metric \in DOMAIN alertActive)
                 /\ (metric \in DOMAIN lastSent') = (metric \in DOMAIN lastSent)
                 /\ metricState(alertActive', lastSent', metric)
                      = metricState(alertActive, lastSent, metric)
        /\ (/\ loops[g].pc = "sending"
            /\ loops'[g].pc \notin {"sending", "update"}
            /\ loops[g].idx < Len(Metrics))
           => /\ loops'[g].pc = "metric"
              /\ loops'[g].idx = loops[g].idx + 1]_vars

\* After a failed delivery for cpu the same cycle has delivered the alert
\* for memory, with the configuration it read at its start although another
\* one has been stored since.
C37_Witness ==
    \E g \in LoopIds :
        /\ loops[g].pc = "update"
        /\ Cur(g) = "memory"
        /\ loops[g].outcome["cpu"] = "failed"
        /\ loops[g].cfg # telegram

\* C38: every entry of the active map is true, and its metric has a
\* last-alert time, which is a time at which an alert for the metric had
\* been delivered: not the zero time and not later than the latest delivery
\* for the metric; a metric for which no delivery has succeeded has no
\* entry.
C38_ActiveMeansDelivered ==
    \A metric \in DOMAIN alertActive :
        /\ alertActive[metric] = TRUE
        /\ metric \in DOMAIN lastSent
        /\ lastSent[metric] # ZeroTime
        /\ deliveredAt[metric] # ZeroTime
        /\ lastSent[metric] <= deliveredAt[metric]

\* Two loops have delivered for cpu one after the other and the earlier
\* time was stored last: cpu is active with a last-alert time before the
\* latest delivery.
C38_Witness ==
    /\ "cpu" \in DOMAIN alertActive
    /\ lastSent["cpu"] < deliveredAt["cpu"]

\* C39: a call of lookupPublicIP that finds a cached address that is not
\* empty and younger than 30 minutes returns it and fetches nothing; a call
\* that finds the cache empty or 30 minutes old or older asks the primary
\* service and, only when that gave nothing, the secondary; an address it
\* got is stored together with the time of the storing and returned; when
\* both gave nothing the call returns the value it read and leaves the
\* cache as it is.
C39_CachedOrFetched ==
    [][\A c \in Callers :
        LET l == lookups[c]
            k == lookups'[c]
            young == /\ publicIPFetched # ZeroTime
                     /\ now - publicIPFetched < 30
        IN  /\ (l.pc = "idle" /\ k.pc # "idle")
               => /\ k.val = publicIPValue
                  /\ (publicIPValue # "" /\ young)
                     => /\ k.pc = "returned"
                        /\ k.result = publicIPValue
                        /\ k.got = << >>
                  /\ (publicIPValue = "" \/ ~young) => k.pc = "fetching"
                  /\ publicIPValue' = publicIPValue
                  /\ publicIPFetched' = publicIPFetched
            /\ (l.pc = "fetching" /\ k.pc # "fetching")
               => /\ Len(k.got) \in {1, 2}
                  /\ Len(k.got) = 2 <=> k.got[1] = ""
                  /\ k.ip = k.got[Len(k.got)]
                  /\ k.ip = "" => /\ k.pc = "returned"
                                  /\ k.result = l.val
                  /\ k.ip # "" => /\ k.pc = "storing"
                                  /\ k.ip \in Addresses
                  /\ publicIPValue' = publicIPValue
                  /\ publicIPFetched' = publicIPFetched
            /\ (l.pc = "storing" /\ k.pc # "storing")
               => /\ k.pc = "returned"
                  /\ k.result = l.ip
                  /\ publicIPValue' = l.ip
                  /\ publicIPFetched' = now]_vars

\* A call has returned the cached address without a fetch, and the address
\* is 29 minutes old now.
C39_Witness ==
    \E c \in Callers :
        /\ lookups[c].pc = "returned"
        /\ lookups[c].got = << >>
        /\ lookups[c].result = publicIPValue
        /\ publicIPValue \in Addresses
        /\ now - publicIPFetched = 29

====
